---- MODULE Spec2Model ----
(***************************************************************************)
(* visualSchedule: the schedule-events / employees REST handlers over the  *)
(* Supabase (Postgres) store, and the schedule page (day view) that talks  *)
(* to them: range fetch, drag/drop rescheduling.                           *)
(*                                                                         *)
(* Time: an absolute instant is a number of minutes since 00:00 of day 0   *)
(* (what an ISO string denotes); an "HH:mm" label is a minute of the day.  *)
(***************************************************************************)
EXTENDS Integers, Sequences, FiniteSets, TLC

VARIABLES
    employees,        \* table public.employees (set of rows)
    schedule_events,  \* table public.schedule_events (set of rows)
    nextEmployeeId,   \* ids handed out by gen_random_uuid(), never reused
    nextEventId,
    calls,            \* number of REST calls answered so far
    lastCall,         \* the REST call just answered, until its caller has it
    currentDate,      \* SchedulePage state: displayed day
    events,           \* SchedulePage state: local event list (sequence)
    loading,          \* SchedulePage state: loading flag
    net,              \* the page's requests in flight (set of records)
    nextRid,          \* request counter of the page
    shownDay,         \* the day of the query whose response filled `events`
    drawerOpen,       \* SchedulePage state: the event drawer is open
    editingEvent,     \* SchedulePage state: <<event>> being edited, or <<>>
    initialValues,    \* SchedulePage state: initial values of a new event
    form,             \* EventDrawer: <<field values>> of the form, or <<>>
    submitting,       \* EventDrawer state: a submit is awaited
    timers,           \* pending setTimeout callbacks of handleDrawerClose
    staff,            \* StaffPage state (record)
    reports,          \* ReportsPage state and its summary (record)
    messages,         \* number of message.error(...) notifications shown
    page              \* the page that is mounted

apiVars == <<employees, schedule_events, nextEmployeeId, nextEventId>>
drawerVars == <<drawerOpen, editingEvent, initialValues, form, submitting,
                timers>>
scheduleVars == <<currentDate, events, loading, shownDay>>
uiVars == <<currentDate, events, loading, net, nextRid, shownDay, drawerOpen,
            editingEvent, initialValues, form, submitting, timers, staff,
            reports, messages, page>>
vars == <<employees, schedule_events, nextEmployeeId, nextEventId, calls,
          lastCall, currentDate, events, loading, net, nextRid, shownDay,
          drawerOpen, editingEvent, initialValues, form, submitting, timers,
          staff, reports, messages, page>>

----------------------------------------------------------------------------
(* Bounds *)
MaxEmployees == 2
MaxEvents == 2
MaxCalls == 4
MaxDay == 1
MaxRequests == 3
MaxTimers == 1

(* JavaScript undefined / null, for string-valued and for number-valued     *)
(* (instant, id) fields.                                                    *)
Undef == "undefined"
Null == "null"
UndefN == 0 - 1
NullN == 0 - 2

MinutesPerDay == 24 * 60

Users == {"u1", "u2"}
NoUser == "anon"
Callers == Users \cup {NoUser}

----------------------------------------------------------------------------
(* JavaScript operators used by the handlers *)

\* a ?? b
Coalesce(a, b) == IF a \in {Undef, Null} THEN b ELSE a
CoalesceN(a, b) == IF a \in {UndefN, NullN} THEN b ELSE a

\* !x for a string or undefined/null
Falsy(x) == x \in {Undef, Null, ""}
FalsyN(x) == x \in {UndefN, NullN}

----------------------------------------------------------------------------
(* The store: tables, constraints and row level security of the schema *)

\* createSupabaseServerClient(): the deployment has its SUPABASE_* variables
SupabaseConfigured == TRUE

\* policy "... are per-user": using (created_by = auth.uid())
RowVisible(row, user) == row.created_by = user

\* the table without its check constraint
NoTimeCheck(row) == TRUE

\* alter table schedule_events add constraint schedule_events_time_check
schedule_events_time_check(row) == row.end_at > row.start_at

\* title text not null, start_at/end_at timestamptz not null,
\* employee_id uuid not null
EventNotNull(row) ==
    /\ row.title # Null
    /\ row.start_at # NullN
    /\ row.end_at # NullN
    /\ row.employee_id # NullN

\* employee_id references public.employees(id); the check ignores RLS
EventForeignKey(row) == \E e \in employees : e.id = row.employee_id

EventRowOk(row) ==
    /\ EventNotNull(row)
    /\ schedule_events_time_check(row)
    /\ EventForeignKey(row)

\* a foreign key without "on delete cascade" semantics
CascadeNothing(employeeId) == {}

\* on delete cascade: the events a deleted employee takes with it
CascadeOnDelete(employeeId) ==
    {ev \in schedule_events : ev.employee_id = employeeId}

\* .insert({...}).select("*").single()
DbInsertEvent(user, cols) ==
    LET row == [id |-> nextEventId, title |-> cols.title,
                description |-> cols.description,
                start_at |-> cols.start_at, end_at |-> cols.end_at,
                employee_id |-> cols.employee_id, color |-> cols.color,
                created_by |-> user]
    IN IF EventRowOk(row)
       THEN [error |-> FALSE, data |-> {row},
             rows |-> schedule_events \cup {row}]
       ELSE [error |-> TRUE, data |-> {}, rows |-> schedule_events]

\* an update that writes every column, absent ones as null
ApplyUpdatesNulling(row, updates) ==
    [id |-> row.id,
     title |-> IF updates.title = Undef THEN row.title ELSE updates.title,
     description |-> IF updates.description = Undef THEN Null
                     ELSE updates.description,
     start_at |-> IF updates.start_at = UndefN THEN row.start_at
                  ELSE updates.start_at,
     end_at |-> IF updates.end_at = UndefN THEN row.end_at
                ELSE updates.end_at,
     employee_id |-> IF updates.employee_id = UndefN THEN row.employee_id
                     ELSE updates.employee_id,
     color |-> IF updates.color = Undef THEN Null ELSE updates.color,
     created_by |-> row.created_by]

\* The columns of `updates` overwrite the row's; an absent column stays.
ApplyUpdates(row, updates) ==
    [id |-> row.id,
     title |-> IF updates.title = Undef THEN row.title ELSE updates.title,
     description |-> IF updates.description = Undef THEN row.description
                     ELSE updates.description,
     start_at |-> IF updates.start_at = UndefN THEN row.start_at
                  ELSE updates.start_at,
     end_at |-> IF updates.end_at = UndefN THEN row.end_at
                ELSE updates.end_at,
     employee_id |-> IF updates.employee_id = UndefN THEN row.employee_id
                     ELSE updates.employee_id,
     color |-> IF updates.color = Undef THEN row.color ELSE updates.color,
     created_by |-> row.created_by]

\* .update(updates).eq("id", id).select("*").single()
DbUpdateEvent(user, id, updates) ==
    LET hit == {ev \in schedule_events : ev.id = id /\ RowVisible(ev, user)}
    IN IF hit = {}
       THEN [error |-> TRUE, data |-> {}, rows |-> schedule_events]
       ELSE LET old == CHOOSE ev \in hit : TRUE
                new == ApplyUpdates(old, updates)
            IN IF EventRowOk(new)
               THEN [error |-> FALSE, data |-> {new},
                     rows |-> (schedule_events \ {old}) \cup {new}]
               ELSE [error |-> TRUE, data |-> {}, rows |-> schedule_events]

\* .delete().eq("id", id).select("*").single()
DbDeleteEvent(user, id) ==
    LET hit == {ev \in schedule_events : ev.id = id /\ RowVisible(ev, user)}
    IN IF hit = {}
       THEN [error |-> TRUE, data |-> {}, rows |-> schedule_events]
       ELSE [error |-> FALSE, data |-> hit, rows |-> schedule_events \ hit]


\* .delete().eq("id", id) on employees, with the cascade of the foreign key
DbDeleteEmployee(user, id) ==
    LET hit == {e \in employees : e.id = id /\ RowVisible(e, user)}
    IN IF hit = {}
       THEN [error |-> TRUE, data |-> {}, emps |-> employees,
             rows |-> schedule_events]
       ELSE [error |-> FALSE, data |-> hit, emps |-> employees \ hit,
             rows |-> schedule_events \ CascadeOnDelete(id)]

\* name text not null
DbInsertEmployee(user, cols) ==
    LET row == [id |-> nextEmployeeId, name |-> cols.name,
                role |-> cols.role, color |-> cols.color,
                created_at |-> nextEmployeeId, created_by |-> user]
    IN IF row.name # Null
       THEN [error |-> FALSE, data |-> {row}, emps |-> employees \cup {row}]
       ELSE [error |-> TRUE, data |-> {}, emps |-> employees]

DbUpdateEmployee(user, id, updates) ==
    LET hit == {e \in employees : e.id = id /\ RowVisible(e, user)}
    IN IF hit = {}
       THEN [error |-> TRUE, data |-> {}, emps |-> employees]
       ELSE LET old == CHOOSE e \in hit : TRUE
                new == [id |-> old.id,
                        name |-> IF updates.name = Undef THEN old.name
                                 ELSE updates.name,
                        role |-> IF updates.role = Undef THEN old.role
                                 ELSE updates.role,
                        color |-> IF updates.color = Undef THEN old.color
                                  ELSE updates.color,
                        created_at |-> old.created_at,
                        created_by |-> old.created_by]
            IN IF new.name # Null
               THEN [error |-> FALSE, data |-> {new},
                     emps |-> (employees \ {old}) \cup {new}]
               ELSE [error |-> TRUE, data |-> {}, emps |-> employees]

\* a select without its "order by"
OrderByNothing(S) ==
    LET n == Cardinality(S)
    IN {s \in [1..n -> S] : \A i, j \in 1..n : i # j => s[i] # s[j]}

\* All orders of the rows of S that are ascending in start_at; the order of
\* rows with equal start_at is not fixed by "order by start_at".
OrderByStartAt(S) ==
    LET n == Cardinality(S)
    IN {s \in [1..n -> S] :
          /\ \A i, j \in 1..n : i # j => s[i] # s[j]
          /\ \A i, j \in 1..n : i < j => s[i].start_at <= s[j].start_at}

\* .order("created_at", { ascending: true }): rows in creation order
\* (created_at default now(); no two rows of the model share it)
RECURSIVE OrderByCreatedAt(_)
OrderByCreatedAt(S) ==
    IF S = {} THEN <<>>
    ELSE LET first == CHOOSE e \in S :
                        \A o \in S : e.created_at <= o.created_at
         IN <<first>> \o OrderByCreatedAt(S \ {first})

----------------------------------------------------------------------------
(* Route handlers.  A response is                                          *)
(*   status  the HTTP status                                               *)
(*   touched whether the handler called .from(table) on the store          *)
(*   data    the row of the body (a set with at most one row)              *)
(*   list    the rows of a list body                                       *)
(*   rows, emps  the tables after the call                                 *)

Answer(status, touched, data, list, rows, emps) ==
    [status |-> status, touched |-> touched, data |-> data, list |-> list,
     rows |-> rows, emps |-> emps]

Refuse(status) ==
    Answer(status, FALSE, {}, <<>>, schedule_events, employees)

InvalidDate == 0 - 3

\* getDateRange(date): the day from 00:00:00.000 to 23:59:59.999; a row's
\* instant is <= 23:59:59.999 exactly when its minute is <= 23:59
getDateRange(date) ==
    IF date = InvalidDate
    THEN [start |-> NullN, end |-> NullN]
    ELSE [start |-> date * MinutesPerDay,
          end |-> date * MinutesPerDay + (MinutesPerDay - 1)]

\* a list handler that queries before it looks at the session
EventsGETUnguarded(user, q) ==
    LET found == {ev \in schedule_events :
                    /\ RowVisible(ev, user)
                    /\ q.employeeId # NullN => ev.employee_id = q.employeeId
                    /\ q.start # NullN => ev.start_at >= q.start
                    /\ q.end # NullN => ev.end_at <= q.end}
    IN {Answer(200, TRUE, {}, s, schedule_events, employees) :
          s \in OrderByStartAt(found)}

\* GET /schedule-events?start=&end=&employeeId=&date=   (absent = NullN)
EventsGET(user, q) ==
    LET useDate == q.start = NullN /\ q.end = NullN /\ q.date # NullN
        startAt == IF useDate THEN getDateRange(q.date).start ELSE q.start
        endAt == IF useDate THEN getDateRange(q.date).end ELSE q.end
        found == {ev \in schedule_events :
                    /\ RowVisible(ev, user)
                    /\ q.employeeId # NullN => ev.employee_id = q.employeeId
                    /\ startAt # NullN => ev.start_at >= startAt
                    /\ endAt # NullN => ev.end_at <= endAt}
    IN IF ~SupabaseConfigured THEN {Refuse(500)}
       ELSE IF user = NoUser THEN {Refuse(401)}
       ELSE {Answer(200, TRUE, {}, s, schedule_events, employees) :
               s \in OrderByStartAt(found)}

\* a create handler that leaves the required fields to the store
EventsPOSTUnvalidated(user, payload) ==
    IF ~payload.json THEN Refuse(400)
    ELSE IF user = NoUser THEN Refuse(401)
    ELSE LET r == DbInsertEvent(user,
                     [title |-> Coalesce(payload.title, Null),
                      description |-> Coalesce(payload.description, Null),
                      start_at |-> CoalesceN(CoalesceN(payload.start_at,
                                                       payload.start), NullN),
                      end_at |-> CoalesceN(CoalesceN(payload.end_at,
                                                     payload.end), NullN),
                      employee_id |-> CoalesceN(CoalesceN(payload.employee_id,
                                                payload.employeeId), NullN),
                      color |-> Coalesce(payload.color, Null)])
         IN Answer(IF r.error THEN 400 ELSE 200, TRUE, r.data, <<>>,
                   r.rows, employees)

\* POST /schedule-events
EventsPOST(user, payload) ==
    LET title == payload.title
        startAt == CoalesceN(payload.start_at, payload.start)
        endAt == CoalesceN(payload.end_at, payload.end)
        employeeId == CoalesceN(payload.employee_id, payload.employeeId)
    IN IF ~payload.json THEN Refuse(400)
       ELSE IF Falsy(title) \/ FalsyN(startAt) \/ FalsyN(endAt)
               \/ FalsyN(employeeId)
       THEN Refuse(400)
       ELSE IF ~SupabaseConfigured THEN Refuse(500)
       ELSE IF user = NoUser THEN Refuse(401)
       ELSE LET r == DbInsertEvent(user,
                       [title |-> title,
                        description |-> Coalesce(payload.description, Null),
                        start_at |-> startAt, end_at |-> endAt,
                        employee_id |-> employeeId,
                        color |-> Coalesce(payload.color, Null)])
            IN Answer(IF r.error THEN 400 ELSE 200, TRUE, r.data, <<>>,
                      r.rows, employees)

\* an `updates` object that takes the camelCase name first
BuildUpdatesCamelFirst(payload) ==
    [title |-> payload.title,
     description |-> payload.description,
     color |-> payload.color,
     start_at |-> CoalesceN(payload.start, payload.start_at),
     end_at |-> CoalesceN(payload.end, payload.end_at),
     employee_id |-> CoalesceN(payload.employeeId, payload.employee_id)]

\* the `updates` object of PATCH: a column is a key of it unless Undef
BuildUpdates(payload) ==
    [title |-> payload.title,
     description |-> payload.description,
     color |-> payload.color,
     start_at |-> CoalesceN(payload.start_at, payload.start),
     end_at |-> CoalesceN(payload.end_at, payload.end),
     employee_id |-> CoalesceN(payload.employee_id, payload.employeeId)]

\* Object.keys(updates)
UpdateKeys(updates) ==
    {k \in {"title", "description", "color"} : updates[k] # Undef}
    \cup {k \in {"start_at", "end_at", "employee_id"} : updates[k] # UndefN}

\* PATCH /schedule-events/:id
EventsPATCH(user, id, payload) ==
    LET updates == BuildUpdates(payload)
    IN IF ~payload.json THEN Refuse(400)
       ELSE IF UpdateKeys(updates) = {} THEN Refuse(400)
       ELSE IF ~SupabaseConfigured THEN Refuse(500)
       ELSE IF user = NoUser THEN Refuse(401)
       ELSE LET r == DbUpdateEvent(user, id, updates)
            IN Answer(IF r.error THEN 400 ELSE 200, TRUE, r.data, <<>>,
                      r.rows, employees)

\* DELETE /schedule-events/:id
EventsDELETE(user, id) ==
    IF ~SupabaseConfigured THEN Refuse(500)
    ELSE IF user = NoUser THEN Refuse(401)
    ELSE LET r == DbDeleteEvent(user, id)
         IN Answer(IF r.error THEN 400 ELSE 200, TRUE, r.data, <<>>,
                   r.rows, employees)

\* GET /employees
EmployeesGET(user) ==
    IF ~SupabaseConfigured THEN Refuse(500)
    ELSE IF user = NoUser THEN Refuse(401)
    ELSE Answer(200, TRUE, {},
                OrderByCreatedAt({e \in employees : RowVisible(e, user)}),
                schedule_events, employees)

\* POST /employees
EmployeesPOST(user, payload) ==
    IF ~payload.json THEN Refuse(400)
    ELSE IF Falsy(payload.name) THEN Refuse(400)
    ELSE IF ~SupabaseConfigured THEN Refuse(500)
    ELSE IF user = NoUser THEN Refuse(401)
    ELSE LET r == DbInsertEmployee(user,
                     [name |-> payload.name,
                      role |-> Coalesce(payload.role, Null),
                      color |-> Coalesce(payload.color, Null)])
         IN Answer(IF r.error THEN 400 ELSE 200, TRUE, r.data, <<>>,
                   schedule_events, r.emps)

\* PATCH /employees/:id
EmployeesPATCH(user, id, payload) ==
    IF ~payload.json THEN Refuse(400)
    ELSE IF payload.name = Undef /\ payload.role = Undef
            /\ payload.color = Undef
    THEN Refuse(400)
    ELSE IF ~SupabaseConfigured THEN Refuse(500)
    ELSE IF user = NoUser THEN Refuse(401)
    ELSE LET r == DbUpdateEmployee(user, id,
                     [name |-> payload.name, role |-> payload.role,
                      color |-> payload.color])
         IN Answer(IF r.error THEN 400 ELSE 200, TRUE, r.data, <<>>,
                   schedule_events, r.emps)

\* DELETE /employees/:id
EmployeesDELETE(user, id) ==
    IF ~SupabaseConfigured THEN Refuse(500)
    ELSE IF user = NoUser THEN Refuse(401)
    ELSE LET r == DbDeleteEmployee(user, id)
         IN Answer(IF r.error THEN 400 ELSE 200, TRUE, r.data, <<>>,
                   r.rows, r.emps)

----------------------------------------------------------------------------
(* REST callers: any caller, any request body from a small set *)

\* an EventPayload; json = FALSE is a body request.json() cannot parse
EventBody(title, description, color, start_at, start, end_at, end, employee_id, employeeId) ==
    [json |-> TRUE, title |-> title, description |-> description,
     color |-> color, start_at |-> start_at, start |-> start,
     end_at |-> end_at, end |-> end, employee_id |-> employee_id,
     employeeId |-> employeeId]

NoEventBody ==
    EventBody(Undef, Undef, Undef, UndefN, UndefN, UndefN, UndefN, UndefN,
              UndefN)

InvalidJson == [NoEventBody EXCEPT !.json = FALSE]

\* 09:00, 10:00, 11:00 of day 0
T0900 == 9 * 60
T0930 == 9 * 60 + 30
T1000 == 10 * 60
T1100 == 11 * 60

SparseBodies ==
    { NoEventBody,
      [NoEventBody EXCEPT !.title = "B"],
      [NoEventBody EXCEPT !.title = ""],
      [NoEventBody EXCEPT !.description = "D"],
      [NoEventBody EXCEPT !.color = "c"],
      [NoEventBody EXCEPT !.start_at = T1000],
      [NoEventBody EXCEPT !.end_at = T1100],
      [NoEventBody EXCEPT !.employee_id = 2],
      [NoEventBody EXCEPT !.start = T1000],
      [NoEventBody EXCEPT !.employeeId = 2],
      [NoEventBody EXCEPT !.start_at = NullN, !.start = T1000],
      [NoEventBody EXCEPT !.title = "B", !.start_at = NullN],
      [NoEventBody EXCEPT !.start_at = T0900, !.start = T1000],
      [NoEventBody EXCEPT !.employee_id = 2, !.start_at = T1000,
                          !.end_at = T1100] }

FullBodies ==
    { EventBody("A", Undef, Undef, T0900, UndefN, T1000, UndefN, 1, UndefN),
      EventBody("A", Undef, Undef, T0900, UndefN, T0930, UndefN, 1, UndefN),
      EventBody("A", Undef, Undef, T1000, UndefN, T1100, UndefN, 1, UndefN),
      EventBody("A", "D", "c", T0900, UndefN, T1100, UndefN, 2, UndefN),
      EventBody("B", Undef, Undef, UndefN, T1000, UndefN, T1100, UndefN, 2),
      EventBody("A", Undef, Undef, T1000, UndefN, T0900, UndefN, 1, UndefN),
      EventBody("A", Undef, Undef, T1000, UndefN, T1000, UndefN, 1, UndefN),
      EventBody("A", Undef, Undef, T0900, UndefN, T1000, UndefN, UndefN,
                UndefN),
      EventBody("", "D", Undef, T0900, UndefN, T1000, UndefN, 1, UndefN),
      EventBody(Undef, "D", Undef, T0900, UndefN, T1000, UndefN, 1, UndefN) }

EventBodies == SparseBodies \cup FullBodies \cup {InvalidJson}

EmployeeBody(name, role, color) ==
    [json |-> TRUE, name |-> name, role |-> role, color |-> color]

NoEmployeeBody == EmployeeBody(Undef, Undef, Undef)

EmployeeBodies ==
    { NoEmployeeBody,
      EmployeeBody("Ann", Undef, Undef),
      EmployeeBody(Undef, "chef", Undef),
      [NoEmployeeBody EXCEPT !.json = FALSE] }

Query(employeeId, start, end, date) ==
    [employeeId |-> employeeId, start |-> start, end |-> end, date |-> date]

NoQuery == Query(NullN, NullN, NullN, NullN)

Queries ==
    { Query(e, s, t, NullN) :
        e \in {NullN, 1}, s \in {NullN, T1000}, t \in {NullN, T1000} }
    \cup { Query(NullN, NullN, NullN, 0), Query(NullN, NullN, NullN, 1),
           Query(NullN, NullN, NullN, InvalidDate),
           Query(NullN, 0, MinutesPerDay - 1, NullN) }

EventIds == 1..MaxEvents
EmployeeIds == 1..MaxEmployees

NoCall ==
    [op |-> "none", user |-> NoUser, id |-> 0, body |-> NoEventBody,
     ebody |-> NoEmployeeBody, query |-> NoQuery, status |-> 0,
     touched |-> FALSE, data |-> {}, list |-> <<>>, again |-> {}]

Idle == lastCall.op = "none"

\* the handler answers: the tables change as the response says and the call
\* is on record until Return
Serve(op, user, id, body, ebody, query, resp) ==
    /\ Idle
    /\ calls < MaxCalls
    /\ calls' = calls + 1
    /\ lastCall' = [op |-> op, user |-> user, id |-> id, body |-> body,
                    ebody |-> ebody, query |-> query,
                    status |-> resp.status, touched |-> resp.touched,
                    data |-> resp.data, list |-> resp.list, again |-> {}]
    /\ schedule_events' = resp.rows
    /\ employees' = resp.emps
    /\ UNCHANGED uiVars

ListEvents ==
    \E user \in Callers, q \in Queries :
      \E resp \in EventsGET(user, q) :
        /\ Serve("GET events", user, 0, NoEventBody, NoEmployeeBody, q, resp)
        /\ UNCHANGED <<nextEmployeeId, nextEventId>>

\* the caller re-invokes the list it just got, with no call in between
ListEventsAgain ==
    /\ lastCall.op = "GET events"
    /\ lastCall.again = {}
    /\ \E resp \in EventsGET(lastCall.user, lastCall.query) :
         lastCall' = [lastCall EXCEPT !.again = {resp.list}]
    /\ UNCHANGED <<apiVars, calls, uiVars>>

CreateEvent ==
    \E user \in Callers, body \in EventBodies :
      LET resp == EventsPOST(user, body)
      IN /\ nextEventId <= MaxEvents
         /\ Serve("POST events", user, 0, body, NoEmployeeBody, NoQuery, resp)
         /\ nextEventId' = IF resp.status = 200 THEN nextEventId + 1
                           ELSE nextEventId
         /\ UNCHANGED nextEmployeeId

UpdateEvent ==
    \E user \in Callers, id \in EventIds, body \in EventBodies :
      /\ Serve("PATCH events", user, id, body, NoEmployeeBody, NoQuery,
               EventsPATCH(user, id, body))
      /\ UNCHANGED <<nextEmployeeId, nextEventId>>

DeleteEvent ==
    \E user \in Callers, id \in EventIds :
      /\ Serve("DELETE events", user, id, NoEventBody, NoEmployeeBody,
               NoQuery, EventsDELETE(user, id))
      /\ UNCHANGED <<nextEmployeeId, nextEventId>>

ListEmployees ==
    \E user \in Callers :
      /\ Serve("GET employees", user, 0, NoEventBody, NoEmployeeBody,
               NoQuery, EmployeesGET(user))
      /\ UNCHANGED <<nextEmployeeId, nextEventId>>

CreateEmployee ==
    \E user \in Callers, body \in EmployeeBodies :
      LET resp == EmployeesPOST(user, body)
      IN /\ nextEmployeeId <= MaxEmployees
         /\ Serve("POST employees", user, 0, NoEventBody, body, NoQuery, resp)
         /\ nextEmployeeId' = IF resp.status = 200 THEN nextEmployeeId + 1
                              ELSE nextEmployeeId
         /\ UNCHANGED nextEventId

UpdateEmployee ==
    \E user \in Callers, id \in EmployeeIds, body \in EmployeeBodies :
      /\ Serve("PATCH employees", user, id, NoEventBody, body, NoQuery,
               EmployeesPATCH(user, id, body))
      /\ UNCHANGED <<nextEmployeeId, nextEventId>>

DeleteEmployee ==
    \E user \in Callers, id \in EmployeeIds :
      /\ Serve("DELETE employees", user, id, NoEventBody, NoEmployeeBody,
               NoQuery, EmployeesDELETE(user, id))
      /\ UNCHANGED <<nextEmployeeId, nextEventId>>

\* the caller has the response
Return ==
    /\ ~Idle
    /\ lastCall' = NoCall
    /\ UNCHANGED <<apiVars, calls, uiVars>>

\* new Date() / dayjs() when a page is loaded: the day the model counts from
Today == 0

\* DEFAULT_RANGE: the last seven days
DEFAULT_RANGE == <<Today - 6, Today>>

\* useState initial values of the staff page
NoStaffForm == [name |-> Undef, role |-> Undef]

StaffUnmounted ==
    [employees |-> <<>>, loading |-> TRUE, isModalOpen |-> FALSE,
     editingEmployee |-> <<>>, saving |-> FALSE, form |-> NoStaffForm]

\* useState initial values of the reports page, and its first useMemo
ReportsUnmounted ==
    [employees |-> <<>>, events |-> <<>>, loading |-> TRUE,
     range |-> DEFAULT_RANGE, summaries |-> <<>>, totalMinutes |-> 0,
     totalEvents |-> 0]

\* useState initial values of the drawer, and every other page unmounted
NoInitialValues == [employeeId |-> UndefN, startTime |-> UndefN]

DrawerClosed ==
    /\ drawerOpen = FALSE
    /\ editingEvent = <<>>
    /\ initialValues = NoInitialValues
    /\ form = <<>>
    /\ submitting = FALSE
    /\ timers = 0

InitApi ==
    /\ DrawerClosed
    /\ staff = StaffUnmounted
    /\ reports = ReportsUnmounted
    /\ messages = 0
    /\ page = "none"
    /\ employees = {}
    /\ schedule_events = {}
    /\ nextEmployeeId = 1
    /\ nextEventId = 1
    /\ calls = 0
    /\ lastCall = NoCall
    /\ currentDate = 0
    /\ events = <<>>
    /\ loading = FALSE
    /\ net = {}
    /\ nextRid = 1
    /\ shownDay = NullN

NextApi ==
    \/ ListEvents
    \/ ListEventsAgain
    \/ CreateEvent
    \/ UpdateEvent
    \/ DeleteEvent
    \/ ListEmployees
    \/ CreateEmployee
    \/ UpdateEmployee
    \/ DeleteEmployee
    \/ Return

SpecApi == InitApi /\ [][NextApi]_vars

----------------------------------------------------------------------------
(* The reports page: the workload summary (useMemo over employees, events). *)
(* A quotient of two numbers is kept as the pair [num, den] it was formed   *)
(* from; den = 0 marks a division by zero.                                   *)

Ratio(num, den) == [num |-> num, den |-> den]

\* a duration as end.diff(start, "hour") would give it
durationInHours(event) ==
    IF event.end_at - event.start_at > 0
    THEN (event.end_at - event.start_at) \div 60 ELSE 0

\* Math.max(end.diff(start, "minute"), 0)
duration(event) ==
    IF event.end_at - event.start_at > 0
    THEN event.end_at - event.start_at ELSE 0

\* events.forEach(...): the Map employee_id -> {minutes, events}
RECURSIVE totals(_)
totals(evs) ==
    IF evs = <<>> THEN [k \in {} |-> [minutes |-> 0, events |-> 0]]
    ELSE LET before == totals(SubSeq(evs, 1, Len(evs) - 1))
             event == evs[Len(evs)]
             current == IF event.employee_id \in DOMAIN before
                        THEN before[event.employee_id]
                        ELSE [minutes |-> 0, events |-> 0]
         IN [k \in DOMAIN before \cup {event.employee_id} |->
               IF k = event.employee_id
               THEN [minutes |-> current.minutes + duration(event),
                     events |-> current.events + 1]
               ELSE before[k]]

\* Array.from(totals.values()).reduce((sum, item) => sum + item.minutes, 0)
RECURSIVE totalMinutesAll(_)
totalMinutesAll(t) ==
    IF DOMAIN t = {} THEN 0
    ELSE LET k == CHOOSE x \in DOMAIN t : TRUE
         IN t[k].minutes
              + totalMinutesAll([x \in DOMAIN t \ {k} |-> t[x]])

\* a row whose average is divided out whatever the number of events
summaryRowUnguarded(employee, t) ==
    LET entry == IF employee.id \in DOMAIN t THEN t[employee.id]
                 ELSE [minutes |-> 0, events |-> 0]
    IN [id |-> employee.id, name |-> employee.name,
        eventCount |-> entry.events, totalMinutes |-> entry.minutes,
        totalHours |-> Ratio(entry.minutes, 60),
        avgHours |-> Ratio(entry.minutes, 60 * entry.events)]

\* the body of employees.map(...): one row of the summary
summaryRow(employee, t) ==
    LET entry == IF employee.id \in DOMAIN t THEN t[employee.id]
                 ELSE [minutes |-> 0, events |-> 0]
        totalHours == Ratio(entry.minutes, 60)
        avgHours == IF entry.events # 0
                    THEN Ratio(totalHours.num, totalHours.den * entry.events)
                    ELSE Ratio(0, 1)
    IN [id |-> employee.id, name |-> employee.name,
        eventCount |-> entry.events, totalMinutes |-> entry.minutes,
        totalHours |-> totalHours, avgHours |-> avgHours]

Orderings(n) ==
    {p \in [1..n -> 1..n] : \A i, j \in 1..n : i # j => p[i] # p[j]}

\* a sort that leaves the order of equal rows open
sortByTotalMinutesUnstable(rows) ==
    {[i \in 1..Len(rows) |-> rows[p[i]]] : p \in
       {q \in Orderings(Len(rows)) :
          \A i, j \in 1..Len(rows) :
            i < j => rows[q[i]].totalMinutes >= rows[q[j]].totalMinutes}}

\* rows.sort((a, b) => b.totalMinutes - a.totalMinutes): the outcomes of
\* Array.prototype.sort, which is stable: descending, and rows that compare
\* equal stay in the order they had
sortByTotalMinutes(rows) ==
    {[i \in 1..Len(rows) |-> rows[p[i]]] : p \in
       {q \in Orderings(Len(rows)) :
          \A i, j \in 1..Len(rows) :
            i < j =>
              \/ rows[q[i]].totalMinutes > rows[q[j]].totalMinutes
              \/ /\ rows[q[i]].totalMinutes = rows[q[j]].totalMinutes
                 /\ q[i] < q[j]}}

\* a summary that sorts the employee list itself, then maps it
summarizeInPlace(emps, evs) ==
    LET t == totals(evs)
        rows == [i \in 1..Len(emps) |-> summaryRow(emps[i], t)]
    IN {[summaries |-> sorted, totalMinutes |-> totalMinutesAll(t),
         totalEvents |-> Len(evs),
         employees |-> [i \in 1..Len(sorted) |->
                          CHOOSE e \in {emps[j] : j \in 1..Len(emps)} :
                            e.id = sorted[i].id],
         events |-> evs] : sorted \in sortByTotalMinutes(rows)}

\* the useMemo callback: its results, and the two arrays it read as they are
\* when it returns (rows is a new array; the sort is in place on rows)
summarize(emps, evs) ==
    LET t == totals(evs)
        rows == [i \in 1..Len(emps) |-> summaryRow(emps[i], t)]
    IN {[summaries |-> sorted, totalMinutes |-> totalMinutesAll(t),
         totalEvents |-> Len(evs), employees |-> emps, events |-> evs] :
          sorted \in sortByTotalMinutes(rows)}

----------------------------------------------------------------------------
(* Properties of the REST handlers (SpecApi) *)

\* the step in which a handler answers a call
Answered == lastCall.op = "none" /\ lastCall'.op # "none"

StoreUnchanged ==
    schedule_events' = schedule_events /\ employees' = employees

\* C4: update(id, partial) writes exactly the fields that carry a value in
\* the request body and leaves every other column of the stored event as it
\* was; every other row is untouched, and a refused update changes nothing.
C4_SparsePatch ==
    [][(Answered /\ lastCall'.op = "PATCH events") =>
         LET b == lastCall'.body
             olds == {ev \in schedule_events : ev.id = lastCall'.id}
             news == {ev \in schedule_events' : ev.id = lastCall'.id}
         IN IF lastCall'.status # 200
            THEN StoreUnchanged
            ELSE /\ employees' = employees
                 /\ {ev \in schedule_events' : ev.id # lastCall'.id}
                      = {ev \in schedule_events : ev.id # lastCall'.id}
                 /\ lastCall'.data = news
                 /\ \A old \in olds : \E new \in news :
                      /\ new.title = IF b.title = Undef THEN old.title
                                     ELSE b.title
                      /\ new.description =
                           IF b.description = Undef THEN old.description
                           ELSE b.description
                      /\ new.color = IF b.color = Undef THEN old.color
                                     ELSE b.color
                      /\ IF FalsyN(b.start_at) /\ FalsyN(b.start)
                         THEN new.start_at = old.start_at
                         ELSE new.start_at \in {b.start_at, b.start}
                                                 \ {UndefN, NullN}
                      /\ IF FalsyN(b.end_at) /\ FalsyN(b.end)
                         THEN new.end_at = old.end_at
                         ELSE new.end_at \in {b.end_at, b.end}
                                               \ {UndefN, NullN}
                      /\ IF FalsyN(b.employee_id) /\ FalsyN(b.employeeId)
                         THEN new.employee_id = old.employee_id
                         ELSE new.employee_id \in {b.employee_id, b.employeeId}
                                                    \ {UndefN, NullN}
                      /\ new.created_by = old.created_by
      ]_vars

\* a patch of the title alone has been applied to an event that keeps its
\* description "D"
C4_Witness ==
    /\ lastCall.op = "PATCH events"
    /\ lastCall.status = 200
    /\ lastCall.body = [NoEventBody EXCEPT !.title = "B"]
    /\ \E ev \in lastCall.data :
         ev.title = "B" /\ ev.description = "D" /\ ev.color = "c"

\* C5: a create whose end is not strictly after its start fails and adds no
\* event, and every stored event has end_at > start_at.
C5_InvertedRejected ==
    /\ [](\A ev \in schedule_events : ev.end_at > ev.start_at)
    /\ [][(/\ Answered
           /\ lastCall'.op = "POST events"
           /\ BuildUpdates(lastCall'.body).end_at
                <= BuildUpdates(lastCall'.body).start_at) =>
            (lastCall'.status # 200 /\ lastCall'.data = {}
             /\ StoreUnchanged /\ nextEventId' = nextEventId)]_vars

\* an otherwise valid create with end before start has reached the store and
\* been rejected there
C5_Witness ==
    /\ lastCall.op = "POST events"
    /\ lastCall.status = 400
    /\ lastCall.touched
    /\ lastCall.body.title = "A"
    /\ lastCall.body.start_at = T1000
    /\ lastCall.body.end_at = T0900
    /\ \E e \in employees : e.id = lastCall.body.employee_id

\* C6: a create that lacks title, start, end or employee id, and an update
\* without any recognised field, are answered 400 before any store call, and
\* the store is unchanged.
C6_ValidationBeforeStore ==
    [][(/\ Answered
        /\ \/ /\ lastCall'.op = "POST events"
              /\ \/ lastCall'.body.title = Undef
                 \/ lastCall'.body.start_at = UndefN
                      /\ lastCall'.body.start = UndefN
                 \/ lastCall'.body.end_at = UndefN
                      /\ lastCall'.body.end = UndefN
                 \/ lastCall'.body.employee_id = UndefN
                      /\ lastCall'.body.employeeId = UndefN
           \/ /\ lastCall'.op = "PATCH events"
              /\ lastCall'.body \in {NoEventBody, InvalidJson}) =>
         (lastCall'.status = 400 /\ ~lastCall'.touched /\ StoreUnchanged)
      ]_vars

\* an authenticated create without an employee id has been refused while the
\* employee table is populated
C6_Witness ==
    /\ lastCall.op = "POST events"
    /\ lastCall.user \in Users
    /\ lastCall.body.title = "A"
    /\ lastCall.body.employee_id = UndefN
    /\ lastCall.body.employeeId = UndefN
    /\ lastCall.status = 400
    /\ employees # {}

\* C7 (as stated): update and delete of an id that is not in the store are
\* answered 404 and leave the store unchanged.
C7_NotFoundIs404 ==
    [][(/\ Answered
        /\ lastCall'.op \in {"PATCH events", "DELETE events"}
        /\ lastCall'.user \in Users
        /\ lastCall'.op = "PATCH events" =>
             lastCall'.body = [NoEventBody EXCEPT !.title = "B"]
        /\ ~\E ev \in schedule_events : ev.id = lastCall'.id) =>
         (lastCall'.status = 404 /\ StoreUnchanged)
      ]_vars

\* C8: for an unauthenticated caller no endpoint reads or writes the store,
\* and the list endpoints answer 401.
C8_UnauthenticatedNoStore ==
    [][(Answered /\ lastCall'.user = NoUser) =>
         /\ ~lastCall'.touched
         /\ StoreUnchanged
         /\ lastCall'.status \in {400, 401}
         /\ lastCall'.op \in {"GET events", "GET employees"} =>
              (lastCall'.status = 401 /\ lastCall'.list = <<>>)
      ]_vars

\* an unauthenticated list has been answered 401 while events are stored
C8_Witness ==
    /\ lastCall.op = "GET events"
    /\ lastCall.user = NoUser
    /\ lastCall.status = 401
    /\ schedule_events # {}

\* the rows a list call is to return: the caller's, inside the range,
\* narrowed to the employee
ListedRows(user, q) ==
    LET lo == IF q.start = NullN /\ q.end = NullN /\ q.date \in {0, 1}
              THEN q.date * MinutesPerDay ELSE q.start
        hi == IF q.start = NullN /\ q.end = NullN /\ q.date \in {0, 1}
              THEN q.date * MinutesPerDay + 1439 ELSE q.end
    IN {ev \in schedule_events :
          /\ ev.created_by = user
          /\ q.employeeId # NullN => ev.employee_id = q.employeeId
          /\ lo # NullN => ev.start_at >= lo
          /\ hi # NullN => ev.end_at <= hi}

ListIsExact ==
    (lastCall.op = "GET events" /\ lastCall.status = 200) =>
      /\ {lastCall.list[i] : i \in 1..Len(lastCall.list)}
           = ListedRows(lastCall.user, lastCall.query)
      /\ Len(lastCall.list)
           = Cardinality(ListedRows(lastCall.user, lastCall.query))
      /\ \A i, j \in 1..Len(lastCall.list) :
           i < j => lastCall.list[i].start_at <= lastCall.list[j].start_at

\* C9 (as stated): list returns exactly the caller's events of the range in
\* ascending order of start, and the same sequence when called again.
C9_SameSequenceAgain ==
    /\ ListIsExact
    /\ \A again \in lastCall.again : again = lastCall.list

\* C9 (amended): list returns exactly the caller's events of the range in
\* ascending order of start; called again with no write in between it
\* returns the same rows, again ascending, and the same sequence wherever
\* the starts differ.
C9_ListExactAscending ==
    /\ ListIsExact
    /\ \A again \in lastCall.again :
         /\ Len(again) = Len(lastCall.list)
         /\ {again[i] : i \in 1..Len(again)}
              = {lastCall.list[i] : i \in 1..Len(lastCall.list)}
         /\ \A i, j \in 1..Len(again) :
              i < j => again[i].start_at <= again[j].start_at
         /\ \A i \in 1..Len(again) :
              again[i].start_at = lastCall.list[i].start_at

\* a caller has listed two of its events with different starts, twice
C9_Witness ==
    /\ lastCall.op = "GET events"
    /\ lastCall.status = 200
    /\ Len(lastCall.list) = 2
    /\ lastCall.list[1].start_at < lastCall.list[2].start_at
    /\ lastCall.list[1].id > lastCall.list[2].id
    /\ lastCall.again # {}

\* C10: deleting a resource removes every event that references it; no list
\* returns an event of a deleted resource, and every stored event references
\* an existing resource.
C10_CascadeDelete ==
    /\ [](\A ev \in schedule_events :
            \E e \in employees : e.id = ev.employee_id)
    /\ [](lastCall.op = "GET events" =>
            \A i \in 1..Len(lastCall.list) :
              \E e \in employees : e.id = lastCall.list[i].employee_id)
    /\ [][(/\ Answered
           /\ lastCall'.op = "DELETE employees"
           /\ lastCall'.status = 200) =>
            /\ \A e \in employees' : e.id # lastCall'.id
            /\ \A ev \in schedule_events' : ev.employee_id # lastCall'.id
            /\ schedule_events' \subseteq schedule_events
            /\ \A ev \in schedule_events \ schedule_events' :
                 ev.employee_id = lastCall'.id]_vars

\* an employee with an event has been deleted: three calls, of which one
\* created the employee and one the event
C10_Witness ==
    /\ lastCall.op = "DELETE employees"
    /\ lastCall.status = 200
    /\ calls = 3
    /\ nextEventId = 2
    /\ schedule_events = {}

\* C11: a successful create stores the event with the field values of the
\* request; a list of the creator over a range that holds the whole interval
\* of a stored event returns that event exactly once, as stored; and the
\* workload summary computed from the creator's employee list and that event
\* list reports, for an employee with exactly one listed event, eventCount 1
\* and totalMinutes equal to the length of that event.
C11_CreateListSummarize ==
    /\ [][(/\ Answered
           /\ lastCall'.op = "POST events"
           /\ lastCall'.status = 200) =>
            LET b == lastCall'.body
            IN \E row \in schedule_events' \ schedule_events :
                 /\ lastCall'.data = {row}
                 /\ schedule_events' = schedule_events \cup {row}
                 /\ row.title = b.title
                 /\ row.start_at = CoalesceN(b.start_at, b.start)
                 /\ row.end_at = CoalesceN(b.end_at, b.end)
                 /\ row.employee_id = CoalesceN(b.employee_id, b.employeeId)
                 /\ row.description = Coalesce(b.description, Null)
                 /\ row.color = Coalesce(b.color, Null)
                 /\ row.created_by = lastCall'.user]_vars
    /\ []((lastCall.op = "GET events" /\ lastCall.status = 200) =>
            LET q == lastCall.query
                list == lastCall.list
                staffList == EmployeesGET(lastCall.user).list
            IN /\ \A ev \in schedule_events :
                    (/\ ev.created_by = lastCall.user
                     /\ q.employeeId = NullN
                     /\ q.start # NullN /\ q.start <= ev.start_at
                     /\ q.end # NullN /\ ev.end_at <= q.end) =>
                      Cardinality({i \in 1..Len(list) : list[i] = ev}) = 1
               /\ \A out \in summarize(staffList, list) :
                    \A k \in 1..Len(out.summaries) :
                      \A i \in 1..Len(list) :
                        (/\ list[i].employee_id = out.summaries[k].id
                         /\ \A j \in 1..Len(list) :
                              list[j].employee_id = list[i].employee_id
                                => j = i) =>
                          /\ out.summaries[k].eventCount = 1
                          /\ out.summaries[k].totalMinutes
                               = list[i].end_at - list[i].start_at)

\* an employee and then an event 09:00-09:30 for it were created, and the
\* creator has listed a range that holds the event
C11_Witness ==
    /\ lastCall.op = "GET events"
    /\ lastCall.status = 200
    /\ calls = 3
    /\ lastCall.query.start # NullN
    /\ lastCall.query.end # NullN
    /\ Len(lastCall.list) = 1
    /\ lastCall.list[1].start_at = T0900
    /\ lastCall.list[1].end_at = T0930
    /\ \E out \in summarize(EmployeesGET(lastCall.user).list, lastCall.list) :
         \E k \in 1..Len(out.summaries) :
           /\ out.summaries[k].id = lastCall.list[1].employee_id
           /\ out.summaries[k].eventCount = 1
           /\ out.summaries[k].totalMinutes = 30


\* the same request with every time and employee value under its snake_case
\* name: the snake_case value where there is one, else the camelCase value
Canonical(b) ==
    [b EXCEPT !.start_at = IF FalsyN(b.start_at) THEN b.start ELSE b.start_at,
              !.start = UndefN,
              !.end_at = IF FalsyN(b.end_at) THEN b.end ELSE b.end_at,
              !.end = UndefN,
              !.employee_id = IF FalsyN(b.employee_id) THEN b.employeeId
                              ELSE b.employee_id,
              !.employeeId = UndefN]

\* the columns of public.schedule_events (created_at, which no handler
\* reads or writes, is left out of the rows)
EventColumns ==
    {"id", "title", "description", "start_at", "end_at", "employee_id",
     "color", "created_by"}

----------------------------------------------------------------------------
(* The schedule page.  A time string is either an "HH:mm" label (minute of  *)
(* the day) or an ISO string (absolute instant).                            *)

HHmm(minute) == [iso |-> FALSE, v |-> minute]

\* dayjs(x).format("HH:mm"): the wall-clock minute, the day is dropped
FormatHHmm(instant) == HHmm(instant % MinutesPerDay)

\* parseTime(time) of the page: a label is put on the displayed day
parseTime(time, date) ==
    IF ~time.iso THEN date * MinutesPerDay + time.v ELSE time.v

toCalendarEvent(event) ==
    [id |-> event.id, title |-> event.title,
     start |-> FormatHHmm(event.start_at), end |-> FormatHHmm(event.end_at),
     employeeId |-> event.employee_id,
     color |-> Coalesce(event.color, Undef),
     description |-> Coalesce(event.description, Undef)]

\* fetchedEvents.map(toCalendarEvent)
MapToCalendar(list) == [i \in 1..Len(list) |-> toCalendarEvent(list[i])]

\* the signed-in user of the page's session
SessionUser == "u1"

Days == 0..MaxDay

Request(rid, kind, origin, date, id, body) ==
    [rid |-> rid, kind |-> kind, origin |-> origin, stage |-> "sent",
     date |-> date, id |-> id, body |-> body, status |-> 0, list |-> <<>>]

\* fetchEvents(date), up to its await: the request for the day's range
FetchRequest(rid, origin, date) ==
    Request(rid, "fetch", origin, date, 0, NoEventBody)

\* the query string of fetchEvents: startOf("day") .. endOf("day")
FetchQuery(date) ==
    Query(NullN, date * MinutesPerDay,
          date * MinutesPerDay + (MinutesPerDay - 1), NullN)

\* onDateChange={setCurrentDate}, and the effect on [currentDate]; the day
\* view is behind the mask of the drawer while the drawer is open
DateChange ==
    \E d \in Days :
      /\ page = "schedule"
      /\ ~drawerOpen
      /\ nextRid <= MaxRequests
      /\ currentDate' = d
      /\ loading' = TRUE
      /\ net' = net \cup {FetchRequest(nextRid, "date", d)}
      /\ nextRid' = nextRid + 1
      /\ UNCHANGED <<apiVars, calls, lastCall, events, shownDay>>
      /\ UNCHANGED <<drawerVars, staff, reports, messages, page>>

\* the route handler answers a fetch of the page
ServeFetch ==
    \E r \in net :
      /\ r.kind = "fetch"
      /\ r.stage = "sent"
      /\ \E resp \in EventsGET(SessionUser, FetchQuery(r.date)) :
           net' = (net \ {r}) \cup
                  {[r EXCEPT !.stage = "answered", !.status = resp.status,
                             !.list = resp.list]}
      /\ UNCHANGED <<apiVars, calls, lastCall, currentDate, events, loading,
                     nextRid, shownDay>>
      /\ UNCHANGED <<drawerVars, staff, reports, messages, page>>

\* the body { event: data } of a response, as a list of at most one row
AsList(data) == IF data = {} THEN <<>> ELSE <<CHOOSE row \in data : TRUE>>

\* the route handler answers the PATCH of a drag/drop or of a drawer save
ServePatch ==
    \E r \in net :
      /\ r.kind \in {"drop", "edit"}
      /\ r.stage = "sent"
      /\ LET resp == EventsPATCH(SessionUser, r.id, r.body)
         IN /\ schedule_events' = resp.rows
            /\ net' = (net \ {r}) \cup
                      {[r EXCEPT !.stage = "answered",
                                 !.status = resp.status,
                                 !.list = AsList(resp.data)]}
      /\ UNCHANGED <<employees, nextEmployeeId, nextEventId, calls, lastCall,
                     currentDate, events, loading, nextRid, shownDay>>
      /\ UNCHANGED <<drawerVars, staff, reports, messages, page>>

\* the route handler answers the POST of a drawer save
ServePost ==
    \E r \in net :
      /\ r.kind = "create"
      /\ r.stage = "sent"
      /\ LET resp == EventsPOST(SessionUser, r.body)
         IN /\ schedule_events' = resp.rows
            /\ nextEventId' = IF resp.status = 200 THEN nextEventId + 1
                              ELSE nextEventId
            /\ net' = (net \ {r}) \cup
                      {[r EXCEPT !.stage = "answered",
                                 !.status = resp.status,
                                 !.list = AsList(resp.data)]}
      /\ UNCHANGED <<employees, nextEmployeeId, calls, lastCall, currentDate,
                     events, loading, nextRid, shownDay>>
      /\ UNCHANGED <<drawerVars, staff, reports, messages, page>>

\* the route handler answers the DELETE of the drawer
ServeDelete ==
    \E r \in net :
      /\ r.kind = "delete"
      /\ r.stage = "sent"
      /\ LET resp == EventsDELETE(SessionUser, r.id)
         IN /\ schedule_events' = resp.rows
            /\ net' = (net \ {r}) \cup
                      {[r EXCEPT !.stage = "answered",
                                 !.status = resp.status,
                                 !.list = AsList(resp.data)]}
      /\ UNCHANGED <<employees, nextEmployeeId, nextEventId, calls, lastCall,
                     currentDate, events, loading, nextRid, shownDay>>
      /\ UNCHANGED <<drawerVars, staff, reports, messages, page>>

\* handleDrawerClose: setDrawerOpen(false), and the reset 300 ms later
handleDrawerClose ==
    /\ drawerOpen' = FALSE
    /\ timers' = IF timers < MaxTimers THEN timers + 1 ELSE timers

\* EventDrawer: form.resetFields(); setColor("#1677ff"); onClose()
ResetAndClose ==
    /\ form' = <<>>
    /\ handleDrawerClose

\* fetchEvents after its await; when handleEventSubmit awaited it, it goes
\* on, and handleSubmit of the drawer goes on with success = true
FetchDone(r, error) ==
    /\ loading' = FALSE
    /\ net' = net \ {r}
    /\ IF error
       THEN /\ messages' = messages + 1
            /\ UNCHANGED <<events, shownDay>>
       ELSE /\ events' = MapToCalendar(r.list)
            /\ shownDay' = r.date
            /\ UNCHANGED messages
    /\ IF r.origin = "create"
       THEN /\ ResetAndClose
            /\ submitting' = FALSE
            /\ UNCHANGED <<editingEvent, initialValues>>
       ELSE IF r.origin = "edit"
       THEN /\ editingEvent' = <<>>
            /\ ResetAndClose
            /\ submitting' = FALSE
            /\ UNCHANGED initialValues
       ELSE UNCHANGED drawerVars
    /\ UNCHANGED <<apiVars, calls, lastCall, currentDate, nextRid>>
    /\ UNCHANGED <<staff, reports, page>>

\* handleEventDrop after its await: on error, fetchEvents(currentDate) with
\* the currentDate of the render the drop was handled in
DropDone(r, error) ==
    /\ IF error
       THEN /\ messages' = messages + 1
            /\ loading' = TRUE
            /\ net' = (net \ {r}) \cup {FetchRequest(nextRid, "drop", r.date)}
            /\ nextRid' = nextRid + 1
       ELSE /\ net' = net \ {r}
            /\ UNCHANGED <<loading, nextRid, messages>>
    /\ UNCHANGED <<apiVars, calls, lastCall, currentDate, events, shownDay>>
    /\ UNCHANGED <<drawerVars, staff, reports, page>>

\* a save whose local list is patched whatever the response
SubmitDoneOptimistic(r, error) ==
    /\ net' = net \ {r}
    /\ events' = [i \in 1..Len(events) |->
                    IF events[i].id = r.id
                    THEN [events[i] EXCEPT
                            !.title = r.body.title,
                            !.start = FormatHHmm(r.body.start_at),
                            !.end = FormatHHmm(r.body.end_at)]
                    ELSE events[i]]
    /\ messages' = IF error THEN messages + 1 ELSE messages
    /\ submitting' = FALSE
    /\ UNCHANGED <<loading, nextRid, drawerOpen, editingEvent,
                   initialValues, form, timers>>
    /\ UNCHANGED <<apiVars, calls, lastCall, currentDate, shownDay>>
    /\ UNCHANGED <<staff, reports, page>>

\* handleEventSubmit after its await, and handleSubmit of the drawer after
\* onSubmit has returned
SubmitDone(r, error) ==
    /\ IF error
       THEN /\ messages' = messages + 1
            /\ submitting' = FALSE
            /\ net' = net \ {r}
            /\ UNCHANGED <<events, loading, nextRid, drawerOpen,
                           editingEvent, initialValues, form, timers>>
       ELSE IF r.kind = "create" \/ r.list = <<>>
       THEN /\ loading' = TRUE
            /\ net' = (net \ {r}) \cup
                      {FetchRequest(nextRid, r.kind, r.date)}
            /\ nextRid' = nextRid + 1
            /\ UNCHANGED <<events, drawerVars, messages>>
       ELSE LET updated == toCalendarEvent(r.list[1])
            IN /\ events' = [i \in 1..Len(events) |->
                               IF events[i].id = updated.id THEN updated
                               ELSE events[i]]
               /\ editingEvent' = <<>>
               /\ ResetAndClose
               /\ submitting' = FALSE
               /\ net' = net \ {r}
               /\ UNCHANGED <<loading, nextRid, initialValues, messages>>
    /\ UNCHANGED <<apiVars, calls, lastCall, currentDate, shownDay>>
    /\ UNCHANGED <<staff, reports, page>>

\* a delete that removes the first entry of the list
DeleteDoneFirst(r, error) ==
    /\ net' = net \ {r}
    /\ IF error
       THEN /\ messages' = messages + 1
            /\ UNCHANGED <<events, editingEvent>>
       ELSE /\ events' = IF events = <<>> THEN events ELSE Tail(events)
            /\ editingEvent' = <<>>
            /\ UNCHANGED messages
    /\ UNCHANGED <<drawerOpen, initialValues, form, submitting, timers>>
    /\ UNCHANGED <<apiVars, calls, lastCall, currentDate, loading, nextRid,
                   shownDay, staff, reports, page>>

\* handleEventDelete after its await
DeleteDone(r, error) ==
    /\ net' = net \ {r}
    /\ IF error
       THEN /\ messages' = messages + 1
            /\ UNCHANGED <<events, editingEvent>>
       ELSE /\ events' = SelectSeq(events, LAMBDA ev : ev.id # r.id)
            /\ editingEvent' = <<>>
            /\ UNCHANGED messages
    /\ UNCHANGED <<drawerOpen, initialValues, form, submitting, timers>>
    /\ UNCHANGED <<apiVars, calls, lastCall, currentDate, loading, nextRid,
                   shownDay, staff, reports, page>>

\* the handler that awaits request r goes on
Done(r, error) ==
    CASE r.kind = "fetch" -> FetchDone(r, error)
      [] r.kind = "drop" -> DropDone(r, error)
      [] r.kind \in {"edit", "create"} -> SubmitDone(r, error)
      [] r.kind = "delete" -> DeleteDone(r, error)

\* api.get / api.patch / ... resolves with the handler's response
Response ==
    \E r \in net :
      /\ page = "schedule"
      /\ r.stage = "answered"
      /\ Done(r, r.status # 200)

\* the call resolves with an error of the transport (no connection, or the
\* 15 s timeout), before or after the handler has run
NetworkError ==
    \E r \in net : page = "schedule" /\ Done(r, TRUE)

\* where the day view lets an event be dropped: 09:00 and 19:45
DropStarts == {HHmm(9 * 60), HHmm(19 * 60 + 45)}

\* const duration = originalEnd.diff(originalStart, "minute") of
\* handleEventDrop, for the displayed day `date`
dropDuration(event, date) ==
    LET originalStart == parseTime(event.start, date)
        originalEnd == parseTime(event.end, date)
    IN originalEnd - originalStart

\* handleEventDrop(event, next), up to its await
handleEventDrop(i, next) ==
    LET event == events[i]
        newStart == parseTime(next.start, currentDate)
        newEnd == newStart + dropDuration(event, currentDate)
    IN /\ events' = [events EXCEPT ![i] =
                       [event EXCEPT !.employeeId = next.employeeId,
                                     !.start = FormatHHmm(newStart),
                                     !.end = FormatHHmm(newEnd)]]
       /\ net' = net \cup
                 {Request(nextRid, "drop", "drop", currentDate, event.id,
                          [NoEventBody EXCEPT !.employee_id = next.employeeId,
                                              !.start_at = newStart,
                                              !.end_at = newEnd])}
       /\ nextRid' = nextRid + 1

EventDrop ==
    \E i \in 1..Len(events), e \in employees, start \in DropStarts :
      /\ page = "schedule"
      /\ ~drawerOpen
      /\ nextRid <= MaxRequests
      /\ handleEventDrop(i, [employeeId |-> e.id, start |-> start])
      /\ UNCHANGED <<apiVars, calls, lastCall, currentDate, loading,
                     shownDay>>
      /\ UNCHANGED <<drawerVars, staff, reports, messages, page>>

\* handleEventClick(event): the drawer opens on a displayed event
EventClick ==
    \E i \in 1..Len(events) :
      /\ page = "schedule"
      /\ ~drawerOpen
      /\ nextRid <= MaxRequests
      /\ editingEvent' = <<events[i]>>
      /\ initialValues' = NoInitialValues
      /\ drawerOpen' = TRUE
      /\ UNCHANGED <<apiVars, calls, lastCall, scheduleVars, net, nextRid,
                     form, submitting, timers, staff, reports, messages,
                     page>>

\* where the day view lets a time label be clicked
ClickLabels == {HHmm(9 * 60)}

\* handleTimeLabelClick(timeLabel, index, timeSlot, employee) with an HH:mm
\* slot: the drawer opens for a new event at that time of the displayed day
TimeLabelClick ==
    \E e \in employees, label \in ClickLabels :
      /\ page = "schedule"
      /\ ~drawerOpen
      /\ nextRid <= MaxRequests
      /\ editingEvent' = <<>>
      /\ initialValues' = [employeeId |-> e.id,
                           startTime |-> currentDate * MinutesPerDay
                                           + label.v]
      /\ drawerOpen' = TRUE
      /\ UNCHANGED <<apiVars, calls, lastCall, scheduleVars, net, nextRid,
                     form, submitting, timers, staff, reports, messages,
                     page>>

\* the instant dayjs() gives when the drawer needs the current time
Now == Today * MinutesPerDay + 9 * 60

\* "#1677ff"
DefaultColor == "#1677ff"

\* parseTime(time) of the drawer: a label is put on today
drawerParseTime(time) ==
    IF ~time.iso THEN Today * MinutesPerDay + time.v ELSE time.v

\* handleAfterOpenChange(true): the form is filled from the event being
\* edited, or from the initial values of a new event
AfterOpenChange ==
    /\ page = "schedule"
    /\ drawerOpen
    /\ form = <<>>
    /\ IF editingEvent # <<>>
       THEN LET e == editingEvent[1]
            IN form' = <<[title |-> e.title,
                          timeRange |-> <<drawerParseTime(e.start),
                                          drawerParseTime(e.end)>>,
                          employeeId |-> e.employeeId,
                          description |-> e.description,
                          color |-> IF e.color # Undef THEN e.color
                                    ELSE DefaultColor]>>
       ELSE LET startTime == IF initialValues.startTime # UndefN
                             THEN initialValues.startTime ELSE Now
            IN form' = <<[title |-> Undef,
                          timeRange |-> <<startTime, startTime + 60>>,
                          employeeId |-> initialValues.employeeId,
                          description |-> Undef,
                          color |-> DefaultColor]>>
    /\ UNCHANGED <<apiVars, calls, lastCall, scheduleVars, net, nextRid,
                   drawerOpen, editingEvent, initialValues, submitting,
                   timers, staff, reports, messages, page>>

\* the time ranges the user picks in the RangePicker: 10:00-11:00 of the
\* displayed day, or of the day after it
PickedRanges ==
    { <<d * MinutesPerDay + T1000, d * MinutesPerDay + T1100>> :
        d \in {currentDate, currentDate + 1} }

\* what the user types into the form: a title, and a time range
FormEdit ==
    /\ page = "schedule"
    /\ drawerOpen
    /\ form # <<>>
    /\ \E title \in {form[1].title, "N"},
          timeRange \in {form[1].timeRange} \cup PickedRanges :
         /\ form' = <<[form[1] EXCEPT !.title = title,
                                      !.timeRange = timeRange]>>
         /\ form' # form
    /\ UNCHANGED <<apiVars, calls, lastCall, scheduleVars, net, nextRid,
                   drawerOpen, editingEvent, initialValues, submitting,
                   timers, staff, reports, messages, page>>

\* handleSubmit of the drawer and handleEventSubmit, up to the await:
\* validateFields passes, and the PATCH or POST is sent
Submit ==
    /\ page = "schedule"
    /\ drawerOpen
    /\ form # <<>>
    /\ ~submitting
    /\ ~Falsy(form[1].title)
    /\ ~FalsyN(form[1].employeeId)
    /\ nextRid <= MaxRequests
    /\ LET f == form[1]
           payload == EventBody(f.title, f.description, f.color,
                                f.timeRange[1], UndefN, f.timeRange[2],
                                UndefN, f.employeeId, UndefN)
       IN net' = net \cup
                 {IF editingEvent # <<>>
                  THEN Request(nextRid, "edit", "drawer", currentDate,
                               editingEvent[1].id, payload)
                  ELSE Request(nextRid, "create", "drawer", currentDate, 0,
                               payload)}
    /\ nextRid' = nextRid + 1
    /\ submitting' = TRUE
    /\ UNCHANGED <<apiVars, calls, lastCall, scheduleVars, drawerOpen,
                   editingEvent, initialValues, form, timers, staff,
                   reports, messages, page>>

\* handleDelete of the drawer: handleEventDelete sends the DELETE, and the
\* drawer resets and closes without awaiting it
Delete ==
    /\ page = "schedule"
    /\ drawerOpen
    /\ editingEvent # <<>>
    /\ nextRid <= MaxRequests
    /\ net' = net \cup {Request(nextRid, "delete", "drawer", currentDate,
                                editingEvent[1].id, NoEventBody)}
    /\ nextRid' = nextRid + 1
    /\ ResetAndClose
    /\ UNCHANGED <<apiVars, calls, lastCall, scheduleVars, editingEvent,
                   initialValues, submitting, staff, reports, messages,
                   page>>

\* handleClose of the drawer (Cancel, the close icon, the mask)
DrawerClose ==
    /\ page = "schedule"
    /\ drawerOpen
    /\ ResetAndClose
    /\ UNCHANGED <<apiVars, calls, lastCall, scheduleVars, net, nextRid,
                   editingEvent, initialValues, submitting, staff, reports,
                   messages, page>>

\* the setTimeout callback of handleDrawerClose, 300 ms after a close
CloseTimeout ==
    /\ page = "schedule"
    /\ timers > 0
    /\ timers' = timers - 1
    /\ editingEvent' = <<>>
    /\ initialValues' = NoInitialValues
    /\ UNCHANGED <<apiVars, calls, lastCall, scheduleVars, net, nextRid,
                   drawerOpen, form, submitting, staff, reports, messages,
                   page>>

----------------------------------------------------------------------------
(* The staff page.  Its requests are in `net` with the kinds "employees",  *)
(* "employeePatch", "employeePost" and "employeeDelete".                    *)

\* handleOpenModal(employee?): the modal opens to edit a row of the table,
\* or to add an employee
StaffOpenModal ==
    \E i \in 0..Len(staff.employees) :
      /\ page = "staff"
      /\ ~staff.isModalOpen
      /\ nextRid <= MaxRequests
      /\ staff' = IF i = 0
                  THEN [staff EXCEPT !.editingEmployee = <<>>,
                                     !.form = NoStaffForm,
                                     !.isModalOpen = TRUE]
                  ELSE [staff EXCEPT
                          !.editingEmployee = <<staff.employees[i]>>,
                          !.form = [name |-> staff.employees[i].name,
                                    role |-> staff.employees[i].role],
                          !.isModalOpen = TRUE]
      /\ UNCHANGED <<apiVars, calls, lastCall, scheduleVars, net, nextRid,
                     drawerVars, reports, messages, page>>

\* what the user types into the form of the modal
StaffFormEdit ==
    /\ page = "staff"
    /\ staff.isModalOpen
    /\ \E name \in {staff.form.name, "Cy"},
          role \in {staff.form.role, "chef"} :
         /\ staff' = [staff EXCEPT !.form = [name |-> name, role |-> role]]
         /\ staff' # staff
    /\ UNCHANGED <<apiVars, calls, lastCall, scheduleVars, net, nextRid,
                   drawerVars, reports, messages, page>>

\* handleCloseModal
handleCloseModal(s) ==
    [s EXCEPT !.isModalOpen = FALSE, !.editingEmployee = <<>>,
              !.form = NoStaffForm]

\* onCancel of the modal
StaffCloseModal ==
    /\ page = "staff"
    /\ staff.isModalOpen
    /\ staff' = handleCloseModal(staff)
    /\ UNCHANGED <<apiVars, calls, lastCall, scheduleVars, net, nextRid,
                   drawerVars, reports, messages, page>>

\* handleSubmit of the staff page, up to its await: validateFields passes
\* (the name is required), and the PATCH or POST is sent
StaffSubmit ==
    /\ page = "staff"
    /\ staff.isModalOpen
    /\ ~staff.saving
    /\ ~Falsy(staff.form.name)
    /\ nextRid <= MaxRequests
    /\ LET payload == EmployeeBody(staff.form.name, staff.form.role, Undef)
       IN net' = net \cup
                 {IF staff.editingEmployee # <<>>
                  THEN Request(nextRid, "employeePatch", "modal", 0,
                               staff.editingEmployee[1].id, payload)
                  ELSE Request(nextRid, "employeePost", "modal", 0, 0,
                               payload)}
    /\ nextRid' = nextRid + 1
    /\ staff' = [staff EXCEPT !.saving = TRUE]
    /\ UNCHANGED <<apiVars, calls, lastCall, scheduleVars, drawerVars,
                   reports, messages, page>>

\* handleDelete(employee) of the staff page, up to its await
StaffDelete ==
    \E i \in 1..Len(staff.employees) :
      /\ page = "staff"
      /\ ~staff.isModalOpen
      /\ nextRid <= MaxRequests
      /\ net' = net \cup {Request(nextRid, "employeeDelete", "table", 0,
                                  staff.employees[i].id, NoEmployeeBody)}
      /\ nextRid' = nextRid + 1
      /\ UNCHANGED <<apiVars, calls, lastCall, scheduleVars, drawerVars,
                     staff, reports, messages, page>>

\* the route handler answers a request of the staff page
StaffServe ==
    \E r \in net :
      /\ page = "staff"
      /\ r.stage = "sent"
      /\ LET resp ==
               CASE r.kind = "employees" -> EmployeesGET(SessionUser)
                 [] r.kind = "employeePatch" ->
                      EmployeesPATCH(SessionUser, r.id, r.body)
                 [] r.kind = "employeePost" ->
                      EmployeesPOST(SessionUser, r.body)
                 [] r.kind = "employeeDelete" ->
                      EmployeesDELETE(SessionUser, r.id)
         IN /\ employees' = resp.emps
            /\ schedule_events' = resp.rows
            /\ nextEmployeeId' =
                 IF r.kind = "employeePost" /\ resp.status = 200
                 THEN nextEmployeeId + 1 ELSE nextEmployeeId
            /\ net' = (net \ {r}) \cup
                      {[r EXCEPT !.stage = "answered",
                                 !.status = resp.status,
                                 !.list = IF r.kind = "employees"
                                          THEN resp.list
                                          ELSE AsList(resp.data)]}
      /\ UNCHANGED <<nextEventId, calls, lastCall, scheduleVars, nextRid,
                     drawerVars, staff, reports, messages, page>>

\* handleSubmit of the staff page after its await
StaffSubmitDone(r, error) ==
    IF error
    THEN /\ messages' = messages + 1
         /\ staff' = [staff EXCEPT !.saving = FALSE]
         /\ net' = net \ {r}
         /\ UNCHANGED nextRid
    ELSE IF r.list = <<>>
    THEN /\ staff' = [staff EXCEPT !.loading = TRUE]
         /\ net' = (net \ {r}) \cup
                   {Request(nextRid, "employees", "modal", 0, 0,
                            NoEmployeeBody)}
         /\ nextRid' = nextRid + 1
         /\ UNCHANGED messages
    ELSE /\ staff' = [handleCloseModal(staff) EXCEPT
                        !.saving = FALSE,
                        !.employees =
                          IF r.kind = "employeePatch"
                          THEN [i \in 1..Len(staff.employees) |->
                                  IF staff.employees[i].id = r.id
                                  THEN r.list[1] ELSE staff.employees[i]]
                          ELSE Append(staff.employees, r.list[1])]
         /\ net' = net \ {r}
         /\ UNCHANGED <<nextRid, messages>>

\* fetchEmployees of the staff page after its await; when handleSubmit
\* awaited it, handleSubmit goes on to handleCloseModal
StaffFetchDone(r, error) ==
    LET fetched == IF error
                   THEN [staff EXCEPT !.loading = FALSE]
                   ELSE [staff EXCEPT !.loading = FALSE,
                                      !.employees = r.list]
    IN /\ staff' = IF r.origin = "modal"
                   THEN [handleCloseModal(fetched) EXCEPT !.saving = FALSE]
                   ELSE fetched
       /\ messages' = IF error THEN messages + 1 ELSE messages
       /\ net' = net \ {r}
       /\ UNCHANGED nextRid

\* handleDelete of the staff page after its await
StaffDeleteDone(r, error) ==
    /\ IF error
       THEN /\ messages' = messages + 1
            /\ UNCHANGED staff
       ELSE /\ staff' = [staff EXCEPT !.employees =
                           SelectSeq(staff.employees,
                                     LAMBDA emp : emp.id # r.id)]
            /\ UNCHANGED messages
    /\ net' = net \ {r}
    /\ UNCHANGED nextRid

\* the handler of the staff page that awaits request r goes on
StaffDone(r, error) ==
    /\ CASE r.kind = "employees" -> StaffFetchDone(r, error)
         [] r.kind \in {"employeePatch", "employeePost"} ->
              StaffSubmitDone(r, error)
         [] r.kind = "employeeDelete" -> StaffDeleteDone(r, error)
    /\ UNCHANGED <<apiVars, calls, lastCall, scheduleVars, drawerVars,
                   reports, page>>

StaffResponse ==
    \E r \in net :
      /\ page = "staff"
      /\ r.stage = "answered"
      /\ StaffDone(r, r.status # 200)

StaffNetworkError ==
    \E r \in net : page = "staff" /\ StaffDone(r, TRUE)

\* the store the page is opened on: two employees of the user, two events on
\* day 0 and one on day 1
SeedEmployees ==
    { [id |-> 1, name |-> "Ann", role |-> Null, color |-> Null,
       created_at |-> 1, created_by |-> SessionUser],
      [id |-> 2, name |-> "Bob", role |-> Null, color |-> Null,
       created_at |-> 2, created_by |-> SessionUser] }

SeedEvents ==
    { [id |-> 1, title |-> "A", description |-> Null, start_at |-> 9 * 60,
       end_at |-> 10 * 60, employee_id |-> 1, color |-> Null,
       created_by |-> SessionUser],
      [id |-> 2, title |-> "B", description |-> "D", start_at |-> 10 * 60,
       end_at |-> 18 * 60, employee_id |-> 2, color |-> "c",
       created_by |-> SessionUser],
      [id |-> 3, title |-> "A", description |-> Null,
       start_at |-> MinutesPerDay + 9 * 60,
       end_at |-> MinutesPerDay + 10 * 60, employee_id |-> 1,
       color |-> Null, created_by |-> SessionUser] }

\* the page has mounted: useState initial values, and the effect has called
\* fetchEvents(currentDate)
InitSchedule ==
    /\ DrawerClosed
    /\ staff = StaffUnmounted
    /\ reports = ReportsUnmounted
    /\ messages = 0
    /\ page = "schedule"
    /\ employees = SeedEmployees
    /\ schedule_events = SeedEvents
    /\ \A ev \in schedule_events : EventRowOk(ev)
    /\ nextEmployeeId = 3
    /\ nextEventId = 4
    /\ calls = 0
    /\ lastCall = NoCall
    /\ currentDate = 0
    /\ events = <<>>
    /\ loading = TRUE
    /\ net = {FetchRequest(1, "date", 0)}
    /\ nextRid = 2
    /\ shownDay = NullN

\* the staff page has mounted, and the effect has called fetchEmployees()
InitStaff ==
    /\ DrawerClosed
    /\ staff = StaffUnmounted
    /\ reports = ReportsUnmounted
    /\ messages = 0
    /\ page = "staff"
    /\ employees = SeedEmployees
    /\ schedule_events = SeedEvents
    /\ nextEmployeeId = 3
    /\ nextEventId = 4
    /\ calls = 0
    /\ lastCall = NoCall
    /\ currentDate = Today
    /\ events = <<>>
    /\ loading = TRUE
    /\ net = {Request(1, "employees", "mount", 0, 0, NoEmployeeBody)}
    /\ nextRid = 2
    /\ shownDay = NullN

\* the session is on the schedule page, or on the staff page
Init == InitSchedule \/ InitStaff

Next ==
    \/ DateChange
    \/ ServeFetch
    \/ ServePatch
    \/ ServePost
    \/ ServeDelete
    \/ Response
    \/ NetworkError
    \/ EventDrop
    \/ EventClick
    \/ TimeLabelClick
    \/ AfterOpenChange
    \/ FormEdit
    \/ Submit
    \/ Delete
    \/ DrawerClose
    \/ CloseTimeout
    \/ StaffOpenModal
    \/ StaffFormEdit
    \/ StaffCloseModal
    \/ StaffSubmit
    \/ StaffDelete
    \/ StaffServe
    \/ StaffResponse
    \/ StaffNetworkError

Spec == Init /\ [][Next]_vars

\* a session on the schedule page in which the user only drags events
NextDrops ==
    \/ ServeFetch
    \/ ServePatch
    \/ Response
    \/ NetworkError
    \/ EventDrop

SpecDrops == InitSchedule /\ [][NextDrops]_vars

----------------------------------------------------------------------------
(* Properties of the schedule page (Spec) *)

\* C1 (as stated): a drag/drop keeps the length of the dragged event, in the
\* update request and in the optimistic local patch alike (lengths of label
\* pairs are taken on the displayed day); the patch changes nothing but
\* employee, start and end, and the request carries nothing else.
C1_DurationPreserved ==
    [][\A r \in net' \ net :
         (r.kind = "drop" /\ r.stage = "sent") =>
           \E i \in 1..Len(events) :
             LET len == parseTime(events[i].end, currentDate)
                          - parseTime(events[i].start, currentDate)
             IN /\ events[i].id = r.id
                /\ Len(events') = Len(events)
                /\ r.body.end_at - r.body.start_at = len
                /\ parseTime(events'[i].end, currentDate)
                     - parseTime(events'[i].start, currentDate) = len
                /\ events'[i] = [events[i] EXCEPT
                                   !.employeeId = events'[i].employeeId,
                                   !.start = events'[i].start,
                                   !.end = events'[i].end]
                /\ r.body = [NoEventBody EXCEPT
                               !.employee_id = r.body.employee_id,
                               !.start_at = r.body.start_at,
                               !.end_at = r.body.end_at]
      ]_vars

\* C2 (as stated): the response of a range query is committed to the local
\* list only if it is for the currently selected day.
C2_NoStaleCommit ==
    [][\A r \in net \ net' :
         (/\ r.kind = "fetch"
          /\ shownDay' = r.date
          /\ shownDay' # shownDay \/ events' # events) =>
           r.date = currentDate
      ]_vars

\* C3 (as stated): a failed drag/drop update issues a re-fetch, the re-fetch
\* is for the currently displayed day, and its successful response replaces
\* the local list by the store's events of the displayed day.
C3_RefetchDisplayedDay ==
    [][/\ \A r \in net \ net' :
            (/\ r.kind = "drop"
             /\ r.stage = "sent" \/ r.status # 200
             /\ \A q \in net' : q.rid # r.rid) =>
              \E f \in net' \ net : f.kind = "fetch" /\ f.origin = "drop"
       /\ \A f \in net' \ net :
            (f.kind = "fetch" /\ f.origin = "drop") => f.date = currentDate
       /\ \A f \in net \ net' :
            (/\ f.kind = "fetch"
             /\ f.origin = "drop"
             /\ f.stage = "answered"
             /\ f.status = 200
             /\ shownDay' # shownDay \/ events' # events) =>
              (f.date = currentDate /\ events' = MapToCalendar(f.list))
      ]_vars

\* C15 (as stated): every duration computed from a (start, end) pair is
\* >= 0, and 0 when end <= start: the duration of step 1 of a drag/drop, from
\* the labels of the dragged event on the displayed day, and the duration the
\* workload summary takes of a stored event.
C15_DurationNonNegative ==
    /\ [][\A r \in net' \ net :
            (r.kind = "drop" /\ r.stage = "sent") =>
              \A i \in 1..Len(events) :
                events[i].id = r.id =>
                  LET d == dropDuration(events[i], currentDate)
                      originalStart == parseTime(events[i].start, currentDate)
                      originalEnd == parseTime(events[i].end, currentDate)
                  IN /\ d >= 0
                     /\ originalEnd <= originalStart => d = 0]_vars
    /\ [](\A ev \in schedule_events :
            /\ duration(ev) >= 0
            /\ ev.end_at <= ev.start_at => duration(ev) = 0)


StaffSaveKinds == {"employeePatch", "employeePost", "employeeDelete"}

\* the create, edit and delete requests of an event or of an employee
SaveKinds == {"edit", "create", "delete"} \cup StaffSaveKinds

\* the drag/drop update, edit and delete requests of an event
MutationKinds == {"drop", "edit", "delete"}

\* request r fails in this step: the handler that awaited it is resumed with
\* no response, or with a response that is not a success
Fails(r) ==
    /\ r \in net
    /\ \A q \in net' : q.rid # r.rid
    /\ r.stage = "sent" \/ r.status # 200

\* C16: a create, edit or delete request of an event or of an employee
\* changes the local collection neither when it is issued nor when it fails,
\* and its failure is an error shown to the user; a failed save leaves the
\* drawer or the modal open with its form (the save has returned false).
C16_FailedSaveKeepsCollection ==
    [][/\ \A r \in net' \ net :
            (r.kind \in SaveKinds /\ r.stage = "sent") =>
              (events' = events /\ staff'.employees = staff.employees)
       /\ \A r \in net :
            (r.kind \in SaveKinds /\ Fails(r)) =>
              /\ events' = events
              /\ staff'.employees = staff.employees
              /\ messages' = messages + 1
              /\ r.kind \in {"edit", "create"} =>
                   (/\ drawerOpen' = drawerOpen
                    /\ form' = form
                    /\ ~submitting')
              /\ r.kind \in {"employeePatch", "employeePost"} =>
                   (/\ staff'.isModalOpen = staff.isModalOpen
                    /\ staff'.form = staff.form
                    /\ ~staff'.saving)
      ]_vars

\* C16 witness: on the staff page the list was fetched, the one request
\* sent after it (a save or a delete) has failed, and the list is still the
\* fetched one
C16_Witness ==
    /\ page = "staff"
    /\ nextRid = 3
    /\ net = {}
    /\ messages = 1
    /\ Len(staff.employees) = 2
    /\ staff.isModalOpen
    /\ staff.form.name = "Cy"
    /\ ~staff.saving

\* C17 (as stated): no two mutation requests (drag/drop update, edit,
\* delete) for the same event id are in flight at the same time.
C17_OneMutationInFlight ==
    \A r \in net : \A q \in net :
      (/\ r.kind \in MutationKinds
       /\ q.kind \in MutationKinds
       /\ r.id = q.id) => r.rid = q.rid

\* C18 (as stated): while the list of the displayed day is shown, a
\* drag/drop, or a save of the edit drawer whose form shows the clock times
\* of the displayed event, writes a start on the displayed day: an unchanged
\* save of an event shown on day D keeps it on D.
C18_ResolvedOnDisplayedDay ==
    [][\A r \in net' \ net :
         (/\ r.kind \in {"drop", "edit"}
          /\ r.stage = "sent"
          /\ shownDay = currentDate
          /\ r.kind = "edit" =>
               (/\ form[1].timeRange \notin PickedRanges
                /\ FormatHHmm(form[1].timeRange[1]) = editingEvent[1].start
                /\ FormatHHmm(form[1].timeRange[2]) = editingEvent[1].end)) =>
           r.body.start_at \div MinutesPerDay = currentDate
      ]_vars


\* request r is answered with success and its handler goes on in this step
Confirmed(r) ==
    /\ r \in net
    /\ r \notin net'
    /\ r.stage = "answered"
    /\ r.status = 200

\* lists a and b have the same ids in the same order, and the same entries
\* except for the one with this id
SameButFor(a, b, id) ==
    /\ Len(a) = Len(b)
    /\ \A i \in 1..Len(a) :
         /\ a[i].id = b[i].id
         /\ a[i].id # id => a[i] = b[i]

\* C23: the local list changes only when a range fetch completes (the whole
\* list is replaced), when a drag/drop is handled (only employeeId, start
\* and end of the dragged event change), when an edit is confirmed (only
\* the entry with the edited id is replaced) or when a delete is confirmed
\* (only the entry with the deleted id is removed).
C23_ListFrame ==
    [][events' # events =>
         \/ \E r \in net :
              /\ r.kind = "fetch"
              /\ Confirmed(r)
              /\ events' = MapToCalendar(r.list)
         \/ \E r \in net' \ net :
              /\ r.kind = "drop"
              /\ r.stage = "sent"
              /\ SameButFor(events, events', r.id)
              /\ \A i \in 1..Len(events) :
                   events'[i] = [events[i] EXCEPT
                                   !.employeeId = events'[i].employeeId,
                                   !.start = events'[i].start,
                                   !.end = events'[i].end]
         \/ \E r \in net :
              /\ r.kind = "edit"
              /\ Confirmed(r)
              /\ SameButFor(events, events', r.id)
         \/ \E r \in net :
              /\ r.kind = "delete"
              /\ Confirmed(r)
              /\ events' = SelectSeq(events, LAMBDA ev : ev.id # r.id)
      ]_vars

\* event 1 has been deleted from the fetched list of day 0, and event 2 is
\* still there
C23_Witness ==
    /\ page = "schedule"
    /\ nextRid = 3
    /\ net = {}
    /\ messages = 0
    /\ shownDay = 0
    /\ Len(events) = 1
    /\ events[1].id = 2
    /\ \A ev \in schedule_events : ev.id # 1


\* C24 (as stated): every update request a drag/drop issues carries an end
\* strictly after its start.
C24_DropEndAfterStart ==
    [][\A r \in net' \ net :
         (r.kind = "drop" /\ r.stage = "sent") =>
           r.body.end_at > r.body.start_at
      ]_vars


\* the event with this id is displayed
Displayed(id) == \E i \in 1..Len(events) : events[i].id = id

\* the event with this id has been deleted from the store and is not
\* displayed
Gone(id) ==
    /\ id < nextEventId
    /\ \A ev \in schedule_events : ev.id # id
    /\ ~Displayed(id)

\* C25 (as stated): once a delete of an event has been confirmed and the
\* event removed from the local list, the event is never displayed again.
C25_DeletedStaysGone ==
    [][\A id \in 1..MaxEvents + 2 :
         (messages = 0 /\ Gone(id)) => ~Displayed(id)'
      ]_vars


\* the local entry shows what the stored row of the same id holds
ShowsRow(entry, row) ==
    /\ entry.id = row.id
    /\ entry.employeeId = row.employee_id
    /\ entry.start = FormatHHmm(row.start_at)
    /\ entry.end = FormatHHmm(row.end_at)

\* C26 (as stated), for a session of drags in which nothing has failed: when
\* the response of a successful drag/drop update arrives and no request is
\* in flight any more, the local view of the event (employee, start, end)
\* is the store's record of it.
C26_LocalEqualsStore ==
    [][\A r \in net :
         (/\ r.kind = "drop"
          /\ Confirmed(r)
          /\ net' = {}
          /\ messages' = 0) =>
           \A i \in 1..Len(events') :
             events'[i].id = r.id =>
               \E row \in schedule_events' : ShowsRow(events'[i], row)
      ]_vars



\* C27 (as stated): while the drawer that an event click has opened stays
\* open, editingEvent stays the clicked event (so that a submit from it is an
\* update of that event).
C27_EditingEventKept ==
    [][(drawerOpen /\ editingEvent # <<>> /\ drawerOpen') =>
         editingEvent' = editingEvent
      ]_vars

\* C28 (as stated), for a session of drags in which the store has refused
\* or never received every update: once the recovery re-fetch has completed,
\* with success or with an error, and no request is in flight any more, the
\* local list is the store's list of the displayed day, so the event is not
\* shown at the rejected employee and time.
C28_RejectedDropUndone ==
    [][\A f \in net :
         (/\ f.kind = "fetch"
          /\ f.origin = "drop"
          /\ net' = {}
          /\ schedule_events = SeedEvents) =>
           \E resp \in EventsGET(SessionUser, FetchQuery(currentDate)) :
             events' = MapToCalendar(resp.list)
      ]_vars


\* the stored row lies within the day: what fetchEvents(day) asks for
WithinDay(row, day) ==
    /\ row.start_at >= day * MinutesPerDay
    /\ row.end_at <= day * MinutesPerDay + (MinutesPerDay - 1)

\* C29 (as stated), with today displayed (the day the drawer resolves the
\* labels on): after a successful edit from the drawer, the local list shows
\* the edited event only if its stored start and end lie within the
\* displayed day.
C29_EditedShownOnlyOnItsDay ==
    [][\A r \in net :
         (r.kind = "edit" /\ Confirmed(r) /\ currentDate = Today) =>
           \A i \in 1..Len(events') :
             events'[i].id = r.id =>
               \E row \in schedule_events' :
                 row.id = r.id /\ WithinDay(row, currentDate')
      ]_vars


\* C30 (as stated): on the schedule page, loading is true whenever a range
\* fetch is in flight, and false once every issued fetch has completed.
C30_LoadingIffFetching ==
    page = "schedule" => (loading <=> \E r \in net : r.kind = "fetch")

----------------------------------------------------------------------------
(* The reports page: it fetches the employees once and the events of the    *)
(* selected range, and summarizes what it holds on every render.            *)

ReportsRequest(rid, kind, range) ==
    [rid |-> rid, kind |-> kind, stage |-> "sent", from |-> range[1],
     to |-> range[2], status |-> 0, list |-> <<>>]

\* the query string of fetchEvents: startOf("day") of the first day ..
\* endOf("day") of the last
ReportsQuery(from, to) ==
    Query(NullN, from * MinutesPerDay,
          to * MinutesPerDay + (MinutesPerDay - 1), NullN)

\* the render after setEmployees / setEvents: useMemo runs on the new lists
ReportsRender(emps, evs, isLoading) ==
    \E out \in summarize(emps, evs) :
      reports' = [reports EXCEPT !.employees = out.employees,
                                 !.events = out.events,
                                 !.loading = isLoading,
                                 !.summaries = out.summaries,
                                 !.totalMinutes = out.totalMinutes,
                                 !.totalEvents = out.totalEvents]

\* RangePicker onChange: setRange, and the effect on [range]
RangeChange ==
    \E a \in Days, b \in Days :
      /\ page = "reports"
      /\ a <= b
      /\ nextRid <= MaxRequests
      /\ reports' = [reports EXCEPT !.range = <<a, b>>, !.loading = TRUE]
      /\ net' = net \cup {ReportsRequest(nextRid, "events", <<a, b>>)}
      /\ nextRid' = nextRid + 1
      /\ UNCHANGED <<apiVars, calls, lastCall, scheduleVars, drawerVars,
                     staff, messages, page>>

\* the route handlers answer a request of the reports page
ReportsServe ==
    \E r \in net :
      /\ page = "reports"
      /\ r.stage = "sent"
      /\ \E resp \in IF r.kind = "employees"
                     THEN {EmployeesGET(SessionUser)}
                     ELSE EventsGET(SessionUser, ReportsQuery(r.from, r.to)) :
           net' = (net \ {r}) \cup
                  {[r EXCEPT !.stage = "answered", !.status = resp.status,
                             !.list = resp.list]}
      /\ UNCHANGED <<apiVars, calls, lastCall, scheduleVars, drawerVars,
                     nextRid, staff, reports, messages, page>>

\* fetchEmployees / fetchEvents of the reports page after the await
ReportsDone(r, error) ==
    /\ net' = net \ {r}
    /\ IF error
       THEN /\ messages' = messages + 1
            /\ reports' = IF r.kind = "events"
                          THEN [reports EXCEPT !.loading = FALSE]
                          ELSE reports
       ELSE /\ IF r.kind = "employees"
               THEN ReportsRender(r.list, reports.events, reports.loading)
               ELSE ReportsRender(reports.employees, r.list, FALSE)
            /\ UNCHANGED messages
    /\ UNCHANGED <<apiVars, calls, lastCall, scheduleVars, drawerVars,
                   nextRid, staff, page>>

ReportsResponse ==
    \E r \in net :
      /\ page = "reports"
      /\ r.stage = "answered"
      /\ ReportsDone(r, r.status # 200)

ReportsNetworkError ==
    \E r \in net : page = "reports" /\ ReportsDone(r, TRUE)

\* employees as the store may hold them: ids are random (gen_random_uuid),
\* so the order of the ids is not the order of creation
ReportsSeedEmployees ==
    { [id |-> 3, name |-> "Cy", role |-> Null, color |-> Null,
       created_at |-> 1, created_by |-> SessionUser],
      [id |-> 1, name |-> "Ann", role |-> Null, color |-> Null,
       created_at |-> 2, created_by |-> SessionUser],
      [id |-> 2, name |-> "Bob", role |-> Null, color |-> Null,
       created_at |-> 3, created_by |-> SessionUser] }

\* events of the store: two employees with an hour each on day 0, one of
\* them with another event on day 1
ReportsSeedEvents ==
    { [id |-> 1, title |-> "A", description |-> Null, start_at |-> T0900,
       end_at |-> T1000, employee_id |-> 3, color |-> Null,
       created_by |-> SessionUser],
      [id |-> 2, title |-> "B", description |-> "D", start_at |-> T1000,
       end_at |-> T1100, employee_id |-> 1, color |-> "c",
       created_by |-> SessionUser],
      [id |-> 3, title |-> "A", description |-> Null,
       start_at |-> MinutesPerDay + T0900,
       end_at |-> MinutesPerDay + T0930, employee_id |-> 1,
       color |-> Null, created_by |-> SessionUser] }

\* the reports page has mounted: both effects have sent their requests
InitReports ==
    /\ DrawerClosed
    /\ staff = StaffUnmounted
    /\ reports = ReportsUnmounted
    /\ messages = 0
    /\ page = "reports"
    /\ employees = ReportsSeedEmployees
    /\ schedule_events = ReportsSeedEvents
    /\ \A ev \in schedule_events : EventRowOk(ev)
    /\ nextEmployeeId = 4
    /\ nextEventId = 4
    /\ calls = 0
    /\ lastCall = NoCall
    /\ currentDate = Today
    /\ events = <<>>
    /\ loading = TRUE
    /\ net = {ReportsRequest(1, "employees", DEFAULT_RANGE),
              ReportsRequest(2, "events", DEFAULT_RANGE)}
    /\ nextRid = 3
    /\ shownDay = NullN

NextReports ==
    \/ RangeChange
    \/ ReportsServe
    \/ ReportsResponse
    \/ ReportsNetworkError

SpecReports == InitReports /\ [][NextReports]_vars

----------------------------------------------------------------------------
(* Properties of the reports page (SpecReports) *)

\* the sum of f[i] over the indices i of I
RECURSIVE SumOver(_, _)
SumOver(f, I) ==
    IF I = {} THEN 0
    ELSE LET i == CHOOSE x \in I : TRUE
         IN f[i] + SumOver(f, I \ {i})

\* the events of the list held by the page that are assigned to employee id
EventsOf(id) ==
    {i \in 1..Len(reports.events) : reports.events[i].employee_id = id}

Length(event) == event.end_at - event.start_at

\* C12 (as stated): for the employee list and the event list the reports
\* view holds, the totalMinutes of the summary rows add up to the sum of the
\* durations of all events of the list.
C12_TotalConserved ==
    SumOver([k \in 1..Len(reports.summaries) |->
               reports.summaries[k].totalMinutes],
            1..Len(reports.summaries))
      = SumOver([i \in 1..Len(reports.events) |->
                   IF Length(reports.events[i]) > 0
                   THEN Length(reports.events[i]) ELSE 0],
                1..Len(reports.events))

\* C13 (as stated): the summary rows are in descending order of
\* totalMinutes, and rows with equal totalMinutes are in ascending order of
\* the employee id.
C13_TieBreakById ==
    \A i, j \in 1..Len(reports.summaries) :
      i < j =>
        \/ reports.summaries[i].totalMinutes
             > reports.summaries[j].totalMinutes
        \/ /\ reports.summaries[i].totalMinutes
                = reports.summaries[j].totalMinutes
           /\ reports.summaries[i].id < reports.summaries[j].id

\* C14: there is one summary row per employee of the list; its eventCount
\* is the number of listed events assigned to the employee, its totalMinutes
\* the sum of their lengths, totalHours is totalMinutes / 60 and avgHours is
\* totalHours / eventCount, or 0 when eventCount = 0; no quotient has a zero
\* divisor.
C14_SummaryRow ==
    /\ Len(reports.summaries) = Len(reports.employees)
    /\ \A e \in 1..Len(reports.employees) :
         Cardinality({k \in 1..Len(reports.summaries) :
                        reports.summaries[k].id = reports.employees[e].id})
           = 1
    /\ \A k \in 1..Len(reports.summaries) :
         LET row == reports.summaries[k]
             mine == EventsOf(row.id)
         IN /\ row.eventCount = Cardinality(mine)
            /\ row.totalMinutes
                 = SumOver([i \in 1..Len(reports.events) |->
                              Length(reports.events[i])], mine)
            /\ row.totalHours.den # 0
            /\ row.totalHours.num = row.totalMinutes
            /\ row.totalHours.den = 60
            /\ row.avgHours.den # 0
            /\ IF row.eventCount = 0
               THEN row.avgHours.num = 0
               ELSE row.avgHours.num * row.totalHours.den * row.eventCount
                      = row.totalHours.num * row.avgHours.den

\* the page holds the three employees and events of two of them, one with
\* two events; the third has a row with no event
C14_Witness ==
    /\ Len(reports.summaries) = 3
    /\ \E k \in 1..3 : reports.summaries[k].eventCount = 0
    /\ \E k \in 1..3 : reports.summaries[k].eventCount = 2
    /\ \E k \in 1..3 :
         /\ reports.summaries[k].eventCount = 1
         /\ reports.summaries[k].totalMinutes = 60

\* C19: the summary is a projection of the two lists: a step that commits a
\* fetched list leaves the other list as it was and stores the fetched list
\* as fetched; a step that leaves both lists with the contents they had
\* leaves rows, row order and totals as they were; and what the page shows
\* can be derived again from the lists it holds.
C19_PureProjection ==
    /\ [][/\ \A r \in net \ net' :
               (r.stage = "answered" /\ r.status = 200
                  /\ messages' = messages) =>
                 IF r.kind = "employees"
                 THEN /\ reports'.employees = r.list
                      /\ reports'.events = reports.events
                 ELSE /\ reports'.events = r.list
                      /\ reports'.employees = reports.employees
          /\ (/\ reports'.employees = reports.employees
              /\ reports'.events = reports.events) =>
                /\ reports'.summaries = reports.summaries
                /\ reports'.totalMinutes = reports.totalMinutes
                /\ reports'.totalEvents = reports.totalEvents]_vars
    /\ [](\E out \in summarize(reports.employees, reports.events) :
            /\ out.summaries = reports.summaries
            /\ out.totalMinutes = reports.totalMinutes
            /\ out.totalEvents = reports.totalEvents)

\* the events of a range have been fetched and summarized twice, with the
\* employees at hand, two of them with equal totals
C19_Witness ==
    /\ nextRid = 4
    /\ net = {}
    /\ messages = 0
    /\ Len(reports.summaries) = 3
    /\ reports.range = <<Today, Today>>
    /\ reports.totalMinutes > 0
    /\ \E i, j \in 1..3 :
         /\ i # j
         /\ reports.summaries[i].totalMinutes
              = reports.summaries[j].totalMinutes

----------------------------------------------------------------------------
(* The API client (axios.ts).  A call of api.get / post / put / delete /   *)
(* patch is a record of `net`: "sent" while client.request is awaited,     *)
(* "returned" with the {data, error} it resolves to, "thrown" if it        *)
(* rejects.  `attempts` counts the client.request invocations of the call. *)
(* The 403 and 5xx notifications differ from the 400 one in their text     *)
(* only, and are left out.                                                 *)

\* the methods the pages call (api.put has no caller)
Methods == {"get", "post", "delete", "patch"}

ClientCall(rid, method) ==
    [rid |-> rid, kind |-> method, stage |-> "sent", attempts |-> 1,
     failed |-> FALSE, data |-> Null, error |-> <<>>, shown |-> "none"]

\* what the awaited client.request can come to: a response (status, body),
\* no response (no connection, the 15 s timeout), or a value thrown that is
\* not an axios error
Outcome(axiosError, response, status, payload, text) ==
    [axiosError |-> axiosError, response |-> response, status |-> status,
     payload |-> payload, text |-> text]

Outcomes ==
    { Outcome(FALSE, TRUE, 200, "json", "d"),
      Outcome(FALSE, TRUE, 200, "none", Undef),
      Outcome(TRUE, TRUE, 400, "error", "bad"),
      Outcome(TRUE, TRUE, 401, "error", "Unauthorized."),
      Outcome(TRUE, TRUE, 404, "string", "nf"),
      Outcome(TRUE, FALSE, UndefN, "none", Undef),
      Outcome(FALSE, FALSE, UndefN, "none", Undef) }

\* axios resolves on a response with a 2xx status, and rejects otherwise
Resolves(o) == o.response /\ o.status \in 200..299

\* parseError(error)
parseError(o) ==
    IF ~o.axiosError THEN [message |-> "Unknown error.", status |-> UndefN]
    ELSE [message |-> IF o.payload \in {"string", "error", "errorObject",
                                        "message"}
                      THEN o.text
                      ELSE IF o.response THEN "Request failed"
                      ELSE "Network Error",
          status |-> IF o.response THEN o.status ELSE UndefN]

\* showErrorNotification(error): the kind of notification shown
showErrorNotification(error, pathname) ==
    IF error.status = 401
    THEN IF pathname = "login" THEN "error" ELSE "warning"
    ELSE IF error.status = 404 THEN "warning"
    ELSE "error"

\* a client that tries a failed call a second time
requestRetrying(r, o) ==
    IF Resolves(o)
    THEN [r EXCEPT !.stage = "returned", !.data = Coalesce(o.text, Null)]
    ELSE IF r.attempts < 2
    THEN [r EXCEPT !.attempts = 2]
    ELSE [r EXCEPT !.stage = "returned", !.failed = TRUE,
                   !.error = <<parseError(o)>>,
                   !.shown = showErrorNotification(parseError(o), page)]

\* request(method, url, data) once client.request has come to outcome o
request(r, o) ==
    IF Resolves(o)
    THEN [r EXCEPT !.stage = "returned", !.data = Coalesce(o.text, Null)]
    ELSE [r EXCEPT !.stage = "returned", !.failed = TRUE,
                   !.error = <<parseError(o)>>,
                   !.shown = showErrorNotification(parseError(o), page)]

\* api.get(url), api.post(url, data), ...: request up to its await
ClientRequest ==
    \E method \in Methods :
      /\ nextRid <= MaxRequests
      /\ net' = net \cup {ClientCall(nextRid, method)}
      /\ nextRid' = nextRid + 1
      /\ UNCHANGED <<apiVars, calls, lastCall, scheduleVars, drawerVars,
                     staff, reports, messages, page>>

\* client.request settles and request returns; handleUnauthorized sends the
\* window to /login on a 401
ClientSettle ==
    \E r \in net, o \in Outcomes :
      /\ r.stage = "sent"
      /\ net' = (net \ {r}) \cup {request(r, o)}
      /\ page' = IF ~Resolves(o) /\ parseError(o).status = 401
                 THEN "login" ELSE page
      /\ UNCHANGED <<apiVars, calls, lastCall, scheduleVars, drawerVars,
                     nextRid, staff, reports, messages>>

\* the caller has the result of a call
ClientReturn ==
    \E r \in net :
      /\ r.stage = "returned"
      /\ net' = net \ {r}
      /\ UNCHANGED <<apiVars, calls, lastCall, scheduleVars, drawerVars,
                     nextRid, staff, reports, messages, page>>

InitClient ==
    /\ DrawerClosed
    /\ staff = StaffUnmounted
    /\ reports = ReportsUnmounted
    /\ messages = 0
    /\ page = "schedule"
    /\ employees = {}
    /\ schedule_events = {}
    /\ nextEmployeeId = 1
    /\ nextEventId = 1
    /\ calls = 0
    /\ lastCall = NoCall
    /\ currentDate = Today
    /\ events = <<>>
    /\ loading = TRUE
    /\ net = {}
    /\ nextRid = 1
    /\ shownDay = NullN

NextClient ==
    \/ ClientRequest
    \/ ClientSettle
    \/ ClientReturn

SpecClient == InitClient /\ [][NextClient]_vars

\* C22: a call of the client makes one request attempt and never throws; it
\* returns {data, error} with error non-null exactly when the attempt
\* failed, and data null whenever error is non-null; a failed call is not
\* sent again.
C22_OneAttemptNoThrow ==
    /\ [](\A r \in net :
            /\ r.stage \in {"sent", "returned"}
            /\ r.attempts = 1
            /\ r.stage = "returned" =>
                 /\ r.error # <<>> <=> r.failed
                 /\ r.error # <<>> => r.data = Null)
    /\ [][\A r \in net : \A q \in net' :
            (q.rid = r.rid /\ r.stage = "sent" /\ q # r) =>
              q.stage = "returned"]_vars

\* a call has failed with a 400 response and has returned its error
C22_Witness ==
    \E r \in net :
      /\ r.stage = "returned"
      /\ r.failed
      /\ r.error = <<[message |-> "bad", status |-> 400]>>
      /\ r.data = Null

====
